---- MODULE Spec2Model ----
(***************************************************************************)
(* RenderStream-UE: the streaming-level scene selector, the frame stream,  *)
(* the camera response queue of the projection policy and the ScopedSchema *)
(* ownership tree, as state machines.                                      *)
(*                                                                         *)
(* Each component has its own next-state relation and specification; the   *)
(* variables of the other components keep their initial values.            *)
(***************************************************************************)
EXTENDS Integers, Sequences, FiniteSets, TLC

VARIABLES
    \* ---- SceneSelector_StreamingLevels and the world it looks at ----
    schema,            \* Schema().scenes.scenes: the schema the selector validates against
    m_specs,           \* SceneSelector_StreamingLevels::m_specs
    levelLoaded,       \* ULevelStreaming::IsLevelLoaded(), per streaming level
    shouldBeVisible,   \* ULevelStreaming::SetShouldBeVisible(), per streaming level
    loadPending,       \* levels with a LoadStreamLevel request that has not completed
    persistentRoot,    \* World.PersistentLevel->GetLevelScriptActor()
    applied,           \* what the last ApplyParameters call pushed
    sceneCall,         \* what the last selector call did (log lines, requests, result)
    \* ---- FFrameStream ----
    m_handle, m_channel, m_clipping, m_resolution, m_streamName,
    m_bufTexture,      \* the stream's image; NoResource is nullptr
    m_fence,           \* the stream's fence; NoResource is nullptr
    m_fenceValue,
    allocated,         \* GPU resources created so far (images and fences)
    sent,              \* the frames handed to the router, in order
    streamCall,        \* what the last FFrameStream call was given and returned
    fenceReached,      \* the value the GPU fence has been signalled to
    released,          \* whether the stream was torn down and its image released
    \* ---- FRenderStreamProjectionPolicy: the camera response queue ----
    m_frameResponses,     \* std::deque<CameraResponseData>
    m_frameResponsesLock, \* std::mutex: the thread holding it, or "none"
    pcControl,            \* where the control thread is in its push
    pcRender,             \* where the render thread is in its pop
    pushed,               \* every record pushed so far, in push order
    popped,               \* every record a pop returned so far, in pop order
    queueCall,            \* the record being pushed and the last pop's outcome
    \* ---- RenderStreamLink::ScopedSchema objects and the C heap ----
    objState,          \* per object: "unborn", "alive" or "destroyed"
    objSchema,         \* per object: its Schema member (counts and pointers)
    mem,               \* heap: the contents of every allocation made so far
    freeCount,         \* heap: how many times free() was called on each allocation
    owner,             \* the object whose population made each allocation
    schemaCall,        \* what the last ScopedSchema operation was and what it freed
    handed,            \* heap: the allocations a schema passed to rs_saveSchema referred to
    \* ---- FRenderStreamEditorModule ----
    DirtyAssetMetadata, \* FRenderStreamEditorModule::DirtyAssetMetadata
    saveAttempts,       \* how many times rs_saveSchema was called
    editorCall          \* what the last editor callback generated, saved and logged

sceneVars == <<schema, m_specs, levelLoaded, shouldBeVisible, loadPending,
               persistentRoot, applied, sceneCall>>

streamVars == <<m_handle, m_channel, m_clipping, m_resolution, m_streamName,
                m_bufTexture, m_fence, m_fenceValue, allocated, sent, streamCall,
                fenceReached, released>>

queueVars == <<m_frameResponses, m_frameResponsesLock, pcControl, pcRender,
               pushed, popped, queueCall>>

heapVars == <<objState, objSchema, mem, freeCount, owner, schemaCall, handed>>

editorVars == <<DirtyAssetMetadata, saveAttempts, editorCall>>

vars == <<sceneVars, streamVars, queueVars, heapVars, editorVars>>

-----------------------------------------------------------------------------
(* Bounds of the scene selector model *)

MaxScenes == 2

(* Bounds of the frame stream model: frames sent, Setup calls *)
MaxSends == 3
MaxSetups == 2

(* Bound of the response queue model: records pushed *)
MaxPushes == 4

(* Bound of the schema model: the length of an array of a populated schema *)
MaxItems == 2

(* Bound of the move model: a move stops once it would free an allocation
   more often than this *)
MaxFrees == 2

(* Bounds of the editor model: the exposed properties of a level script actor,
   the calls of rs_saveSchema *)
MaxProperties == 2
MaxSaveEvents == 2

(* Bound of the editor model: the world saves and world deletions between
   two frames *)
MaxEvents == 2

(* What a freshly allocated scene may hold where its hash is *)
Garbage == {0, 7}

-----------------------------------------------------------------------------
(* The world: two streaming levels, named by their short package name with *)
(* the streaming prefix removed, and the actors that can be content roots. *)
(* A schema can also declare a "Desert" scene, made for a level the world  *)
(* does not have.                                                          *)

WorldLevels == <<"Forest", "Cave">>
LevelActors == <<"ForestActor", "CaveActor">>
Levels == 1..Len(WorldLevels)
NoLevel == 0
NullActor == "null"
PersistentActor == "RootActor"
SceneNames == {"Base", "Forest", "Cave", "Desert"}

\* findStreamingLevelByName: the first streaming level whose name is FindName
findStreamingLevelByName(FindName) ==
    LET matching == {l \in Levels : WorldLevels[l] = FindName}
    IN  IF matching = {} THEN NoLevel
        ELSE CHOOSE l \in matching : \A k \in matching : l <= k

\* ULevelStreaming::GetLevelScriptActor: the level's actor once it is loaded
GetLevelScriptActor(l, loadedNow) ==
    IF loadedNow[l] THEN LevelActors[l] ELSE NullActor

\* the schema the router holds was generated for a world in which the persistent
\* root and each level's actor expose one parameter each
DeclaredParameters(name) == IF name = "Base" THEN 1 ELSE 2

\* the hash the router fills in for a scene
SceneHash(name) ==
    IF name = "Base" THEN 10 ELSE IF name = "Forest" THEN 20
    ELSE IF name = "Cave" THEN 30 ELSE 40

\* the scenes a schema can declare
SceneEntries ==
    {[name |-> n, nParameters |-> DeclaredParameters(n), hash |-> SceneHash(n)] :
        n \in SceneNames}

\* the schemas: up to MaxScenes scenes, no scene name declared twice; the
\* scene of the persistent level, when declared, is scene 0 as the editor
\* module generates it
Schemas ==
    {sch \in UNION {[1..n -> SceneEntries] : n \in 0..MaxScenes} :
        /\ \A i, j \in 1..Len(sch) : sch[i].name = sch[j].name => i = j
        /\ \A i \in 1..Len(sch) : sch[i].name = "Base" => i = 1}

\* a default-constructed SchemaSpec, as resize() appends it
DefaultSpec ==
    [streamingLevel |-> NoLevel, persistentRoot |-> NullActor, hash |-> 0,
     nParameters |-> 0, loaded |-> FALSE]

\* exposed parameters of one content root; a null root exposes none, and the
\* Cave level has gained a second parameter since the schema was made
ExposedParams(root) ==
    IF root = NullActor THEN 0
    ELSE IF root = "CaveActor" THEN 2
    ELSE 1

\* ValidateParameters: the declared count against what the roots expose
ValidateParameters(parameters, roots) ==
    parameters.nParameters = ExposedParams(roots[1]) + ExposedParams(roots[2])

\* ValidateLevel(sceneId) on the bindings `specs`, the schema `sch`
ValidateLevel(sceneId, specs, sch, loadedNow) ==
    LET parameters == sch[sceneId + 1]
        spec == specs[sceneId + 1]
        levelRoot == IF spec.streamingLevel # NoLevel
                     THEN GetLevelScriptActor(spec.streamingLevel, loadedNow)
                     ELSE NullActor
    IN  ValidateParameters(parameters, <<spec.persistentRoot, levelRoot>>)

NoApplied == <<>>

NoCall ==
    [op |-> "none", scene |-> -1, ret |-> TRUE, error |-> FALSE,
     checkFailed |-> FALSE, validated |-> <<>>, requested |-> {},
     wasPending |-> FALSE, again |-> FALSE, appliedNow |-> FALSE]

InitScene ==
    /\ schema = <<>>
    /\ m_specs = <<>>
    /\ levelLoaded = [l \in Levels |-> FALSE]
    /\ shouldBeVisible = [l \in Levels |-> FALSE]
    /\ loadPending = {}
    /\ persistentRoot = PersistentActor
    /\ applied = NoApplied
    /\ sceneCall = NoCall

-----------------------------------------------------------------------------
(* SceneSelector_StreamingLevels::OnLoadedSchema *)

\* m_specs.resize(n): keeps the first n bindings, appends default ones
Resize(specs, n) ==
    [i \in 1..n |-> IF i <= Len(specs) THEN specs[i] ELSE DefaultSpec]

\* whether the loop validates a scene bound to streamingLevel right away
IsResident(streamingLevel) ==
    streamingLevel = NoLevel \/ levelLoaded[streamingLevel]

\* the binding of scene i (1-based) after the loop body ran on it
BoundSpec(i, Schema, specs) ==
    LET parameters == Schema[i]
        streamingLevel == findStreamingLevelByName(parameters.name)
    IN  [streamingLevel |-> streamingLevel,
         persistentRoot |-> persistentRoot,
         hash |-> parameters.hash,
         nParameters |-> parameters.nParameters,
         loaded |-> IF IsResident(streamingLevel) THEN TRUE ELSE specs[i].loaded]

\* the loop over the schema's scenes, from scene i (1-based) on: the bindings,
\* the ValidateLevel calls made (in order, with their results) and the result
RECURSIVE SchemaLoopStops(_, _, _, _)
SchemaLoopStops(i, Schema, specs, validated) ==
    IF i > Len(Schema)
    THEN [specs |-> specs, validated |-> validated, ret |-> TRUE]
    ELSE LET bound == [specs EXCEPT ![i] = BoundSpec(i, Schema, specs)]
         IN  IF IsResident(bound[i].streamingLevel)
             THEN LET ok == ValidateLevel(i - 1, bound, Schema, levelLoaded)
                      log == Append(validated, [scene |-> i - 1, ok |-> ok])
                  IN  IF ok THEN SchemaLoopStops(i + 1, Schema, bound, log)
                      ELSE [specs |-> bound, validated |-> log, ret |-> FALSE]
             ELSE SchemaLoopStops(i + 1, Schema, bound, validated)

RECURSIVE SchemaLoop(_, _, _, _)
SchemaLoop(i, Schema, specs, validated) ==
    IF i > Len(Schema)
    THEN [specs |-> specs, validated |-> validated, ret |-> TRUE]
    ELSE LET bound == [specs EXCEPT ![i] = BoundSpec(i, Schema, specs)]
         IN  IF IsResident(bound[i].streamingLevel)
             THEN SchemaLoop(i + 1, Schema, bound,
                             Append(validated,
                                    [scene |-> i - 1,
                                     ok |-> ValidateLevel(i - 1, bound, Schema, levelLoaded)]))
             ELSE SchemaLoop(i + 1, Schema, bound, validated)

OnLoadedSchema(Schema) ==
    LET done == SchemaLoop(1, Schema, Resize(m_specs, Len(Schema)), <<>>)
    IN  /\ schema' = Schema
        /\ m_specs' = done.specs
        /\ sceneCall' = [NoCall EXCEPT !.op = "OnLoadedSchema",
                                       !.ret = done.ret,
                                       !.validated = done.validated]
        /\ UNCHANGED <<levelLoaded, shouldBeVisible, loadPending, persistentRoot, applied>>
        /\ UNCHANGED <<streamVars, queueVars, heapVars, editorVars>>

-----------------------------------------------------------------------------
(* SceneSelector_StreamingLevels::ApplyScene *)

\* lines 53-57: the scene id is out of range; an error is logged
RejectScene_HidesAll(sceneId) ==
    /\ sceneCall' = [NoCall EXCEPT !.op = "ApplyScene", !.scene = sceneId,
                                   !.error = TRUE]
    /\ shouldBeVisible' = [l \in Levels |-> FALSE]
    /\ UNCHANGED <<schema, m_specs, levelLoaded, loadPending, persistentRoot, applied>>

RejectScene(sceneId) ==
    /\ sceneCall' = [NoCall EXCEPT !.op = "ApplyScene", !.scene = sceneId,
                                   !.error = TRUE]
    /\ UNCHANGED <<schema, m_specs, levelLoaded, shouldBeVisible, loadPending,
                   persistentRoot, applied>>

\* line 62: check(spec.streamingLevel != nullptr) fails; the call ends there
CheckFails(sceneId) ==
    /\ sceneCall' = [NoCall EXCEPT !.op = "ApplyScene", !.scene = sceneId,
                                   !.checkFailed = TRUE]
    /\ UNCHANGED <<schema, m_specs, levelLoaded, shouldBeVisible, loadPending,
                   persistentRoot, applied>>

\* line 64: the binding is not marked loaded and its level is not loaded yet
MustLoad_Never(spec) == FALSE

MustLoad_IgnoresLevel(spec) == ~spec.loaded

MustLoad(spec) ==
    ~spec.loaded /\ ~levelLoaded[spec.streamingLevel]

\* lines 66-69: LoadStreamLevel(level, bMakeVisibleAfterLoad, bShouldBlockOnLoad)
\* is requested and the call returns
RequestLoad(sceneId, spec) ==
    /\ loadPending' = loadPending \cup {spec.streamingLevel}
    /\ sceneCall' = [NoCall EXCEPT !.op = "ApplyScene", !.scene = sceneId,
                                   !.requested = {spec.streamingLevel},
                                   !.wasPending = (spec.streamingLevel \in loadPending)]
    /\ UNCHANGED <<schema, m_specs, levelLoaded, shouldBeVisible, persistentRoot, applied>>

\* whether the activation calls ApplyParameters
Applies(spec) ==
    \/ spec.streamingLevel = NoLevel /\ spec.persistentRoot = persistentRoot
    \/ spec.streamingLevel # NoLevel /\ levelLoaded[spec.streamingLevel]

\* lines 78-109: activation of the binding `spec`
Activate_KeepsOthers(spec) ==
    /\ shouldBeVisible' =
           [l \in Levels |->
               IF l = spec.streamingLevel /\ levelLoaded[l] THEN TRUE
               ELSE shouldBeVisible[l]]
    /\ applied' =
           IF spec.streamingLevel # NoLevel /\ levelLoaded[spec.streamingLevel]
           THEN <<spec.persistentRoot,
                  GetLevelScriptActor(spec.streamingLevel, levelLoaded)>>
           ELSE applied

Activate(spec) ==
    IF spec.streamingLevel = NoLevel /\ spec.persistentRoot = persistentRoot
    THEN \* base level
         /\ applied' = <<persistentRoot>>
         /\ shouldBeVisible' = [l \in Levels |-> FALSE]
    ELSE /\ shouldBeVisible' =
                [l \in Levels |->
                    IF l = spec.streamingLevel
                    THEN (IF levelLoaded[l] THEN TRUE ELSE shouldBeVisible[l])
                    ELSE (IF spec.streamingLevel # NoLevel THEN FALSE
                          ELSE shouldBeVisible[l])]
         /\ applied' =
                IF spec.streamingLevel # NoLevel /\ levelLoaded[spec.streamingLevel]
                THEN <<spec.persistentRoot,
                       GetLevelScriptActor(spec.streamingLevel, levelLoaded)>>
                ELSE applied

\* whether the call before this one was ApplyScene on the same scene and ran
\* through to the activation
RepeatsActivation(sceneId) ==
    /\ sceneCall.op = "ApplyScene"
    /\ sceneCall.scene = sceneId
    /\ sceneCall.requested = {}
    /\ ~sceneCall.error
    /\ ~sceneCall.checkFailed

\* lines 71-109: mark the binding loaded and validate it if it was not marked,
\* then activate
MarkAndActivate_Revalidates(sceneId, spec) ==
    LET specs == [m_specs EXCEPT ![sceneId + 1].loaded = TRUE]
        validated ==
            IF FALSE THEN <<>>
            ELSE <<[scene |-> sceneId,
                    ok |-> ValidateLevel(sceneId, specs, schema, levelLoaded)]>>
    IN  /\ m_specs' = specs
        /\ Activate(specs[sceneId + 1])
        /\ sceneCall' = [NoCall EXCEPT !.op = "ApplyScene", !.scene = sceneId,
                                       !.validated = validated,
                                       !.again = RepeatsActivation(sceneId),
                                       !.appliedNow = Applies(spec)]
        /\ UNCHANGED <<schema, levelLoaded, loadPending, persistentRoot>>

MarkAndActivate(sceneId, spec) ==
    LET specs == [m_specs EXCEPT ![sceneId + 1].loaded = TRUE]
        validated ==
            IF spec.loaded THEN <<>>
            ELSE <<[scene |-> sceneId,
                    ok |-> ValidateLevel(sceneId, specs, schema, levelLoaded)]>>
    IN  /\ m_specs' = specs
        /\ Activate(specs[sceneId + 1])
        /\ sceneCall' = [NoCall EXCEPT !.op = "ApplyScene", !.scene = sceneId,
                                       !.validated = validated,
                                       !.again = RepeatsActivation(sceneId),
                                       !.appliedNow = Applies(spec)]
        /\ UNCHANGED <<schema, levelLoaded, loadPending, persistentRoot>>

ApplyScene(sceneId) ==
    /\ IF sceneId >= Len(m_specs)
       THEN RejectScene(sceneId)
       ELSE LET spec == m_specs[sceneId + 1] IN
            IF ~spec.loaded /\ spec.streamingLevel = NoLevel
            THEN CheckFails(sceneId)
            ELSE IF MustLoad(spec)
            THEN RequestLoad(sceneId, spec)
            ELSE MarkAndActivate(sceneId, spec)
    /\ UNCHANGED <<streamVars, queueVars, heapVars, editorVars>>

-----------------------------------------------------------------------------
(* The content loader and the world, outside the selector *)

\* a requested load completes; the request asked for the level to be made visible
LoadComplete(l) ==
    /\ l \in loadPending
    /\ loadPending' = loadPending \ {l}
    /\ levelLoaded' = [levelLoaded EXCEPT ![l] = TRUE]
    /\ shouldBeVisible' = [shouldBeVisible EXCEPT ![l] = TRUE]
    /\ sceneCall' = NoCall
    /\ UNCHANGED <<schema, m_specs, persistentRoot, applied>>
    /\ UNCHANGED <<streamVars, queueVars, heapVars, editorVars>>

\* a level is loaded by something other than the selector
ExternalLoad(l) ==
    /\ ~levelLoaded[l]
    /\ l \notin loadPending
    /\ levelLoaded' = [levelLoaded EXCEPT ![l] = TRUE]
    /\ sceneCall' = NoCall
    /\ UNCHANGED <<schema, m_specs, shouldBeVisible, loadPending, persistentRoot, applied>>
    /\ UNCHANGED <<streamVars, queueVars, heapVars, editorVars>>

\* a loaded level is unloaded by something other than the selector
ExternalUnload(l) ==
    /\ levelLoaded[l]
    /\ levelLoaded' = [levelLoaded EXCEPT ![l] = FALSE]
    /\ shouldBeVisible' = [shouldBeVisible EXCEPT ![l] = FALSE]
    /\ sceneCall' = NoCall
    /\ UNCHANGED <<schema, m_specs, loadPending, persistentRoot, applied>>
    /\ UNCHANGED <<streamVars, queueVars, heapVars, editorVars>>

NextScene ==
    \/ \E Schema \in Schemas : OnLoadedSchema(Schema)
    \/ \E sceneId \in 0..MaxScenes : ApplyScene(sceneId)
    \/ \E l \in Levels : LoadComplete(l)
    \/ \E l \in Levels : ExternalLoad(l)
    \/ \E l \in Levels : ExternalUnload(l)

\* OnLoadedSchema as the plugin calls it: once, when the schema arrives
LoadSchemaOnce(Schema) ==
    /\ m_specs = <<>>
    /\ OnLoadedSchema(Schema)

NextPoll ==
    \/ \E Schema \in Schemas : LoadSchemaOnce(Schema)
    \/ \E sceneId \in 0..MaxScenes : ApplyScene(sceneId)
    \/ \E l \in Levels : LoadComplete(l)
    \/ \E l \in Levels : ExternalLoad(l)

\* the schema is loaded once; levels are loaded and unloaded under the selector
NextWorld ==
    \/ \E Schema \in Schemas : LoadSchemaOnce(Schema)
    \/ \E sceneId \in 0..MaxScenes : ApplyScene(sceneId)
    \/ \E l \in Levels : LoadComplete(l)
    \/ \E l \in Levels : ExternalLoad(l)
    \/ \E l \in Levels : ExternalUnload(l)

-----------------------------------------------------------------------------
(* FFrameStream *)

NoResource == 0
NoHandle == 0
StreamHandles == {0, 7, 9}

\* the streams the router describes (StreamDescription without its handle)
StreamDescriptions ==
    {[name |-> "wall", channel |-> "main", resolution |-> <<1920, 1080>>,
      clipping |-> <<0, 1, 0, 1>>],
     [name |-> "floor", channel |-> "aux", resolution |-> <<1280, 720>>,
      clipping |-> <<0, 1, 1, 2>>]}

\* the size of the source texture, and every viewport rectangle inside it
SourceSize == <<2, 1>>
ViewportRects ==
    {r \in [minX : 0..SourceSize[1], maxX : 0..SourceSize[1],
            minY : 0..SourceSize[2], maxY : 0..SourceSize[2]] :
        r.minX <= r.maxX /\ r.minY <= r.maxY}

\* the fence value a newly declared stream starts from
InitialFenceValue == 0

\* the largest int32_t (Dx12Data::fenceValue)
Int32Max == 2147483647

\* v + d in int32_t arithmetic, for 1 <= d: past Int32Max it wraps by 2^32
AddInt32(v, d) ==
    IF v > Int32Max - d THEN ((v - Int32Max) - Int32Max) + (d - 2) ELSE v + d

\* m_fenceValue += 2
NextFenceValue_ByOne(v) == AddInt32(v, 1)

NextFenceValue(v) == AddInt32(v, 2)

NoStreamCall ==
    [op |-> "none", ret |-> TRUE, name |-> "", channel |-> "", handle |-> NoHandle,
     resolution |-> <<0, 0>>, clipping |-> <<0, 0, 0, 0>>, u |-> <<>>, v |-> <<>>,
     created |-> TRUE]

\* FFrameStream::FFrameStream
InitStream ==
    /\ m_streamName = ""
    /\ m_bufTexture = NoResource
    /\ m_handle = NoHandle
    /\ m_channel = ""
    /\ m_clipping = <<0, 0, 0, 0>>
    /\ m_resolution = <<0, 0>>
    /\ m_fence = NoResource
    /\ m_fenceValue = InitialFenceValue
    /\ allocated = 0
    /\ sent = <<>>
    /\ streamCall = NoStreamCall
    /\ fenceReached = InitialFenceValue
    /\ released = FALSE

\* line 25: a stream handle is already held
AlreadyBound_Never == FALSE

AlreadyBound == m_handle # NoHandle

\* RSUCHelpers::CreateStreamResources: on success a new image and a new fence
CreateStreamResources(ok) ==
    IF ok
    THEN /\ m_bufTexture' = allocated + 1
         /\ m_fence' = allocated + 2
         /\ allocated' = allocated + 2
    ELSE UNCHANGED <<m_bufTexture, m_fence, allocated>>

\* FFrameStream::Setup; created: whether CreateStreamResources succeeds
Setup_IgnoresHandle(name, Resolution, Channel, Clipping, Handle, created) ==
    /\ ~released
    /\ allocated < 2 * MaxSetups
    /\ LET call == [NoStreamCall EXCEPT !.op = "Setup", !.name = name,
                                        !.channel = Channel, !.handle = Handle,
                                        !.resolution = Resolution,
                                        !.clipping = Clipping]
       IN  IF AlreadyBound
           THEN /\ streamCall' = [call EXCEPT !.ret = FALSE]
                /\ UNCHANGED <<m_handle, m_channel, m_clipping, m_resolution,
                               m_streamName, m_bufTexture, m_fence, allocated>>
           ELSE /\ m_handle' = Handle
                /\ m_channel' = Channel
                /\ m_clipping' = Clipping
                /\ m_resolution' = Resolution
                /\ m_streamName' = name
                /\ CreateStreamResources(created)
                /\ streamCall' = [call EXCEPT !.ret = created,
                                              !.created = created]
    /\ UNCHANGED <<m_fenceValue, sent, fenceReached, released>>
    /\ UNCHANGED <<sceneVars, queueVars, heapVars, editorVars>>

Setup(name, Resolution, Channel, Clipping, Handle, created) ==
    /\ ~released
    /\ allocated < 2 * MaxSetups
    /\ LET call == [NoStreamCall EXCEPT !.op = "Setup", !.name = name,
                                        !.channel = Channel, !.handle = Handle,
                                        !.resolution = Resolution,
                                        !.clipping = Clipping]
       IN  IF AlreadyBound
           THEN /\ streamCall' = [call EXCEPT !.ret = FALSE]
                /\ UNCHANGED <<m_handle, m_channel, m_clipping, m_resolution,
                               m_streamName, m_bufTexture, m_fence, allocated>>
           ELSE /\ m_handle' = Handle
                /\ m_channel' = Channel
                /\ m_clipping' = Clipping
                /\ m_resolution' = Resolution
                /\ m_streamName' = name
                /\ CreateStreamResources(created)
                /\ streamCall' = [call EXCEPT !.ret = created /\ Handle # NoHandle,
                                              !.created = created]
    /\ UNCHANGED <<m_fenceValue, sent, fenceReached, released>>
    /\ UNCHANGED <<sceneVars, queueVars, heapVars, editorVars>>

\* FFrameStream::SendFrame_RenderingThread: the normalised sub-rectangle as
\* fractions <<numerator, denominator>>, the frame handed to the router
\* (RSUCHelpers::SendFrame) and the fence value advanced
SendFrame_RenderingThread_SwapsAxes(SourceTexture, ViewportRect) ==
    /\ ~released
    /\ Len(sent) < MaxSends
    /\ LET ULeft == <<ViewportRect.minX, SourceTexture[2]>>
           URight == <<ViewportRect.maxX, SourceTexture[2]>>
           VTop == <<ViewportRect.minY, SourceTexture[2]>>
           VBottom == <<ViewportRect.maxY, SourceTexture[2]>>
       IN  /\ sent' = Append(sent, [handle |-> m_handle, image |-> m_bufTexture,
                                    fenceValue |-> m_fenceValue])
           /\ streamCall' = [NoStreamCall EXCEPT !.op = "SendFrame",
                                                 !.u = <<ULeft, URight>>,
                                                 !.v = <<VTop, VBottom>>]
    /\ m_fenceValue' = NextFenceValue(m_fenceValue)
    /\ UNCHANGED <<m_handle, m_channel, m_clipping, m_resolution, m_streamName,
                   m_bufTexture, m_fence, allocated, fenceReached, released>>
    /\ UNCHANGED <<sceneVars, queueVars, heapVars, editorVars>>

SendFrame_RenderingThread(SourceTexture, ViewportRect) ==
    /\ ~released
    /\ Len(sent) < MaxSends
    /\ LET ULeft == <<ViewportRect.minX, SourceTexture[1]>>
           URight == <<ViewportRect.maxX, SourceTexture[1]>>
           VTop == <<ViewportRect.minY, SourceTexture[2]>>
           VBottom == <<ViewportRect.maxY, SourceTexture[2]>>
       IN  /\ sent' = Append(sent, [handle |-> m_handle, image |-> m_bufTexture,
                                    fenceValue |-> m_fenceValue])
           /\ streamCall' = [NoStreamCall EXCEPT !.op = "SendFrame",
                                                 !.u = <<ULeft, URight>>,
                                                 !.v = <<VTop, VBottom>>]
    /\ m_fenceValue' = NextFenceValue(m_fenceValue)
    /\ UNCHANGED <<m_handle, m_channel, m_clipping, m_resolution, m_streamName,
                   m_bufTexture, m_fence, allocated, fenceReached, released>>
    /\ UNCHANGED <<sceneVars, queueVars, heapVars, editorVars>>

\* the fence value that signals that the router has finished with the frame
\* submitted with the value `tag`: the odd value between two submissions
CompletionValue(tag) == AddInt32(tag, 1)

\* whether the last submitted frame may still be read by the router
SendInFlight ==
    /\ sent # <<>>
    /\ fenceReached < CompletionValue(sent[Len(sent)].fenceValue)

\* the router finishes reading the oldest frame it has not finished with and
\* signals the fence
RouterSignalsFence ==
    /\ SendInFlight
    /\ LET pending == {k \in 1..Len(sent) :
                          fenceReached < CompletionValue(sent[k].fenceValue)}
           k == CHOOSE i \in pending : \A j \in pending : i <= j
       IN  fenceReached' = CompletionValue(sent[k].fenceValue)
    /\ streamCall' = NoStreamCall
    /\ UNCHANGED <<m_handle, m_channel, m_clipping, m_resolution, m_streamName,
                   m_bufTexture, m_fence, m_fenceValue, allocated, sent, released>>
    /\ UNCHANGED <<sceneVars, queueVars, heapVars, editorVars>>

\* FFrameStream::~FFrameStream: the body is empty; the members are destroyed
\* and the stream's references to the image and the fence are dropped
Destructor ==
    /\ ~released
    /\ released' = TRUE
    /\ streamCall' = [NoStreamCall EXCEPT !.op = "~FFrameStream"]
    /\ UNCHANGED <<m_handle, m_channel, m_clipping, m_resolution, m_streamName,
                   m_bufTexture, m_fence, m_fenceValue, allocated, sent,
                   fenceReached>>
    /\ UNCHANGED <<sceneVars, queueVars, heapVars, editorVars>>

NextStream ==
    \/ \E d \in StreamDescriptions, Handle \in StreamHandles, created \in BOOLEAN :
          Setup(d.name, d.resolution, d.channel, d.clipping, Handle, created)
    \/ \E ViewportRect \in ViewportRects :
          SendFrame_RenderingThread(SourceSize, ViewportRect)
    \/ RouterSignalsFence
    \/ Destructor

-----------------------------------------------------------------------------
(* FRenderStreamProjectionPolicy: m_frameResponses under m_frameResponsesLock. *)
(* The control thread pushes a CameraResponseData in ApplyCameraData, the      *)
(* render thread pops the oldest one in ApplyWarpBlend_RenderThread; each      *)
(* takes the mutex, works on the deque and releases the mutex.                 *)

Cameras == {"camA", "camB"}
NoResponse == [tTracked |-> 0, camera |-> "none"]

NoQueueCall == [pushing |-> NoResponse, result |-> "none", response |-> NoResponse]

InitQueue ==
    /\ m_frameResponses = <<>>
    /\ m_frameResponsesLock = "none"
    /\ pcControl = "idle"
    /\ pcRender = "idle"
    /\ pushed = <<>>
    /\ popped = <<>>
    /\ queueCall = NoQueueCall

\* std::lock_guard<std::mutex> guard(m_frameResponsesLock), control thread;
\* the record to push carries the frame's tracked time
ControlLock(camera) ==
    /\ pcControl = "idle"
    /\ Len(pushed) < MaxPushes
    /\ m_frameResponsesLock = "none"
    /\ m_frameResponsesLock' = "control"
    /\ pcControl' = "locked"
    /\ queueCall' = [queueCall EXCEPT
                        !.pushing = [tTracked |-> Len(pushed) + 1, camera |-> camera]]
    /\ UNCHANGED <<m_frameResponses, pcRender, pushed, popped>>
    /\ UNCHANGED <<sceneVars, streamVars, heapVars, editorVars>>

\* push: m_frameResponses.push_back(entry)
PushBack_AtFront(queue, entry) == <<entry>> \o queue

PushBack(queue, entry) == Append(queue, entry)

ControlPush ==
    /\ pcControl = "locked"
    /\ m_frameResponses' = PushBack(m_frameResponses, queueCall.pushing)
    /\ pushed' = Append(pushed, queueCall.pushing)
    /\ pcControl' = "pushed"
    /\ UNCHANGED <<m_frameResponsesLock, pcRender, popped, queueCall>>
    /\ UNCHANGED <<sceneVars, streamVars, heapVars, editorVars>>

\* the guard goes out of scope
ControlUnlock ==
    /\ pcControl = "pushed"
    /\ m_frameResponsesLock' = "none"
    /\ pcControl' = "idle"
    /\ UNCHANGED <<m_frameResponses, pcRender, pushed, popped, queueCall>>
    /\ UNCHANGED <<sceneVars, streamVars, heapVars, editorVars>>

\* std::lock_guard<std::mutex> guard(m_frameResponsesLock), render thread
RenderLock ==
    /\ pcRender = "idle"
    /\ m_frameResponsesLock = "none"
    /\ m_frameResponsesLock' = "render"
    /\ pcRender' = "locked"
    /\ UNCHANGED <<m_frameResponses, pcControl, pushed, popped, queueCall>>
    /\ UNCHANGED <<sceneVars, streamVars, heapVars, editorVars>>

\* popOldest: front() and pop_front() if the deque is not empty, else no data
RenderPop_TakesNewest ==
    /\ pcRender = "locked"
    /\ IF m_frameResponses = <<>>
       THEN /\ queueCall' = [queueCall EXCEPT !.result = "no data",
                                              !.response = NoResponse]
            /\ UNCHANGED <<m_frameResponses, popped>>
       ELSE /\ queueCall' = [queueCall EXCEPT !.result = "data",
                                              !.response = m_frameResponses[Len(m_frameResponses)]]
            /\ m_frameResponses' = SubSeq(m_frameResponses, 1, Len(m_frameResponses) - 1)
            /\ popped' = Append(popped, m_frameResponses[Len(m_frameResponses)])
    /\ pcRender' = "popped"
    /\ UNCHANGED <<m_frameResponsesLock, pcControl, pushed>>
    /\ UNCHANGED <<sceneVars, streamVars, heapVars, editorVars>>

RenderPop ==
    /\ pcRender = "locked"
    /\ IF m_frameResponses = <<>>
       THEN /\ queueCall' = [queueCall EXCEPT !.result = "no data",
                                              !.response = NoResponse]
            /\ UNCHANGED <<m_frameResponses, popped>>
       ELSE /\ queueCall' = [queueCall EXCEPT !.result = "data",
                                              !.response = Head(m_frameResponses)]
            /\ m_frameResponses' = Tail(m_frameResponses)
            /\ popped' = Append(popped, Head(m_frameResponses))
    /\ pcRender' = "popped"
    /\ UNCHANGED <<m_frameResponsesLock, pcControl, pushed>>
    /\ UNCHANGED <<sceneVars, streamVars, heapVars, editorVars>>

\* the guard goes out of scope
RenderUnlock ==
    /\ pcRender = "popped"
    /\ m_frameResponsesLock' = "none"
    /\ pcRender' = "idle"
    /\ UNCHANGED <<m_frameResponses, pcControl, pushed, popped, queueCall>>
    /\ UNCHANGED <<sceneVars, streamVars, heapVars, editorVars>>

NextQueue ==
    \/ \E camera \in Cameras : ControlLock(camera)
    \/ ControlPush
    \/ ControlUnlock
    \/ RenderLock
    \/ RenderPop
    \/ RenderUnlock

-----------------------------------------------------------------------------
(* RenderStreamLink::ScopedSchema over a heap of malloc/_strdup allocations.  *)
(* An allocation is named by its number, in allocation order; NullPtr is the  *)
(* null pointer. mem[p] holds what was written into allocation p.             *)

Objects == {"a", "b"}
NullPtr == 0

\* ScopedSchema::clear
Clear_Nothing(sch) == sch

Clear(sch) ==
    [sch EXCEPT !.nChannels = 0, !.channels = NullPtr,
                !.nScenes = 0, !.scenes = NullPtr]

\* the Schema member before the constructor ran
RawSchema ==
    [nChannels |-> 0, channels |-> NullPtr, nScenes |-> 0, scenes |-> NullPtr]

EmptySchema ==
    [nChannels |-> 0, channels |-> NullPtr, nScenes |-> 0, scenes |-> NullPtr]

NoSchemaCall ==
    [op |-> "none", obj |-> "none", wasEmpty |-> TRUE, freed |-> <<>>,
     from |-> "none", moved |-> EmptySchema, accepted |-> FALSE]

InitHeap ==
    /\ objState = [o \in Objects |-> "unborn"]
    /\ objSchema = [o \in Objects |-> RawSchema]
    /\ mem = <<>>
    /\ freeCount = <<>>
    /\ owner = <<>>
    /\ schemaCall = NoSchemaCall
    /\ handed = {}

\* the shapes a schema is populated with: the number of channels, of scenes,
\* of parameters per scene and of options per parameter, and whether a scenes
\* array is allocated at all when there is no scene
SchemaShapes ==
    {sh \in [nChannels : {0, MaxItems}, nScenes : {0, MaxItems},
             nParameters : {0, MaxItems}, nOptions : {0, MaxItems},
             scenesArray : BOOLEAN] :
        /\ sh.nScenes > 0 => sh.scenesArray
        /\ sh.nScenes = 0 => sh.nParameters = 0
        /\ sh.nParameters = 0 => sh.nOptions = 0}

StringCell == [kind |-> "string", items |-> <<>>]

RECURSIVE Flatten(_)
Flatten(seqs) == IF seqs = <<>> THEN <<>> ELSE Head(seqs) \o Flatten(Tail(seqs))

\* ConvertFields on one entry, the allocations before it numbering pb: _strdup
\* of group, displayName and key, malloc of the options array, _strdup of each
\* option
ParameterCells(pb, nOptions) ==
    <<StringCell, StringCell, StringCell,
      [kind |-> "options", items |-> [k \in 1..nOptions |-> pb + 4 + k]]>>
    \o [k \in 1..nOptions |-> StringCell]

ParameterEntry(pb, nOptions) ==
    [group |-> pb + 1, displayName |-> pb + 2, key |-> pb + 3,
     nOptions |-> nOptions, options |-> pb + 4]

\* GenerateScene, the allocations before it numbering sb: _strdup of the name,
\* malloc of the parameters array, ConvertFields
SceneCells(sb, nParameters, nOptions) ==
    <<StringCell,
      [kind |-> "parameters",
       items |-> [j \in 1..nParameters |->
                     ParameterEntry(sb + 2 + (j - 1) * (4 + nOptions), nOptions)]]>>
    \o Flatten([j \in 1..nParameters |->
                   ParameterCells(sb + 2 + (j - 1) * (4 + nOptions), nOptions)])

SceneEntry(sb, nParameters) ==
    [name |-> sb + 1, nParameters |-> nParameters, parameters |-> sb + 2]

\* the number of allocations GenerateScene makes
SceneSize(sh) == 2 + sh.nParameters * (4 + sh.nOptions)

\* GenerateAssetMetadata, lines 457-522, the allocations before it numbering
\* base: malloc of the channels array, _strdup of each channel, malloc of the
\* scenes array, GenerateScene for each scene
PopulatedCells(base, sh) ==
    LET cb == base + 1 + sh.nChannels
    IN  <<[kind |-> "channels", items |-> [i \in 1..sh.nChannels |-> base + 1 + i]]>>
        \o [i \in 1..sh.nChannels |-> StringCell]
        \o (IF sh.scenesArray
            THEN <<[kind |-> "scenes",
                    items |-> [i \in 1..sh.nScenes |->
                                  SceneEntry(cb + 1 + (i - 1) * SceneSize(sh),
                                             sh.nParameters)]]>>
                 \o Flatten([i \in 1..sh.nScenes |->
                                SceneCells(cb + 1 + (i - 1) * SceneSize(sh),
                                           sh.nParameters, sh.nOptions)])
            ELSE <<>>)

PopulatedSchema(base, sh) ==
    [nChannels |-> sh.nChannels,
     channels |-> base + 1,
     nScenes |-> sh.nScenes,
     scenes |-> IF sh.scenesArray THEN base + 1 + sh.nChannels + 1 ELSE NullPtr]

\* ScopedSchema::ScopedSchema()
Construct(o) ==
    /\ objState[o] = "unborn"
    /\ objState' = [objState EXCEPT ![o] = "alive"]
    /\ objSchema' = [objSchema EXCEPT ![o] = Clear(objSchema[o])]
    /\ schemaCall' = [NoSchemaCall EXCEPT !.op = "construct", !.obj = o]
    /\ UNCHANGED <<mem, freeCount, owner>>
    /\ UNCHANGED <<handed, sceneVars, streamVars, queueVars, editorVars>>

\* GenerateAssetMetadata filling a newly constructed ScopedSchema
Populate(o, sh) ==
    /\ objState[o] = "alive"
    /\ objSchema[o] = EmptySchema
    /\ \A p \in 1..Len(owner) : owner[p] # o
    /\ LET cells == PopulatedCells(Len(mem), sh)
       IN  /\ mem' = mem \o cells
           /\ freeCount' = freeCount \o [p \in 1..Len(cells) |-> 0]
           /\ owner' = owner \o [p \in 1..Len(cells) |-> o]
    /\ objSchema' = [objSchema EXCEPT ![o] = PopulatedSchema(Len(mem), sh)]
    /\ schemaCall' = [NoSchemaCall EXCEPT !.op = "populate", !.obj = o]
    /\ UNCHANGED objState
    /\ UNCHANGED <<handed, sceneVars, streamVars, queueVars, editorVars>>

\* the pointers reset() passes to free() for one parameter, in order
ParameterFrees(parameter) ==
    <<parameter.group, parameter.displayName, parameter.key>>
    \o [k \in 1..parameter.nOptions |-> mem[parameter.options].items[k]]
    \o <<parameter.options>>

\* the pointers reset() passes to free() for one scene, in order
SceneFrees(scene) ==
    <<scene.name>>
    \o Flatten([j \in 1..scene.nParameters |->
                   ParameterFrees(mem[scene.parameters].items[j])])
    \o <<scene.parameters>>

\* the pointers reset() passes to free(), in order (lines 282-303)
ResetFrees(sch) ==
    [i \in 1..sch.nChannels |-> mem[sch.channels].items[i]]
    \o <<sch.channels>>
    \o Flatten([i \in 1..sch.nScenes |-> SceneFrees(mem[sch.scenes].items[i])])
    \o <<sch.scenes>>

\* how often pointer p occurs in the sequence of pointers
Occurrences(p, pointers) == Cardinality({k \in 1..Len(pointers) : pointers[k] = p})

\* free() on each pointer of the sequence; free(nullptr) does nothing
Free(counts, pointers) ==
    [p \in 1..Len(counts) |-> counts[p] + Occurrences(p, pointers)]

\* ScopedSchema::reset on object o, as the operation named op
ResetObject(o, op) ==
    LET pointers == ResetFrees(objSchema[o])
    IN  /\ freeCount' = Free(freeCount, pointers)
        /\ objSchema' = [objSchema EXCEPT ![o] = Clear(objSchema[o])]
        /\ schemaCall' = [NoSchemaCall EXCEPT
                             !.op = op, !.obj = o,
                             !.wasEmpty = (objSchema[o] = EmptySchema),
                             !.freed = SelectSeq(pointers, LAMBDA p : p # NullPtr)]
        /\ UNCHANGED <<mem, owner>>

\* ScopedSchema::reset
Reset(o) ==
    /\ objState[o] = "alive"
    /\ ResetObject(o, "reset")
    /\ UNCHANGED objState
    /\ UNCHANGED <<handed, sceneVars, streamVars, queueVars, editorVars>>

\* ScopedSchema::~ScopedSchema
Destroy(o) ==
    /\ objState[o] = "alive"
    /\ ResetObject(o, "destroy")
    /\ objState' = [objState EXCEPT ![o] = "destroyed"]
    /\ UNCHANGED <<handed, sceneVars, streamVars, queueVars, editorVars>>

NextHeap ==
    \/ \E o \in Objects : Construct(o)
    \/ \E o \in Objects, sh \in SchemaShapes : Populate(o, sh)
    \/ \E o \in Objects : Reset(o)
    \/ \E o \in Objects : Destroy(o)

\* the variant in which a schema the router accepted is given up locally
SaveSchema_Consumes(o, accepted) ==
    /\ objState[o] = "alive"
    /\ handed' = handed \cup ({ResetFrees(objSchema[o])[k] :
                                  k \in 1..Len(ResetFrees(objSchema[o]))}
                              \ {NullPtr})
    /\ schemaCall' = [NoSchemaCall EXCEPT !.op = "rs_saveSchema", !.obj = o,
                                          !.wasEmpty =
                                              (objSchema[o] = EmptySchema),
                                          !.accepted = accepted]
    /\ objSchema' = [objSchema EXCEPT
                        ![o] = IF accepted THEN Clear(objSchema[o])
                               ELSE objSchema[o]]
    /\ UNCHANGED <<objState, mem, freeCount, owner>>
    /\ UNCHANGED <<sceneVars, streamVars, queueVars, editorVars>>

\* rs_saveSchema(path, &Schema.schema) in GenerateAssetMetadata: the router
\* is given the address of the populated schema and answers; the local
\* object is not touched before it goes out of scope
SaveSchema(o, accepted) ==
    /\ objState[o] = "alive"
    /\ handed' = handed \cup ({ResetFrees(objSchema[o])[k] :
                                  k \in 1..Len(ResetFrees(objSchema[o]))}
                              \ {NullPtr})
    /\ schemaCall' = [NoSchemaCall EXCEPT !.op = "rs_saveSchema", !.obj = o,
                                          !.wasEmpty =
                                              (objSchema[o] = EmptySchema),
                                          !.accepted = accepted]
    /\ UNCHANGED <<objState, objSchema, mem, freeCount, owner>>
    /\ UNCHANGED <<sceneVars, streamVars, queueVars, editorVars>>

\* the local `Schema` of GenerateAssetMetadata
LocalSchema == "a"

\* the life of that local: constructed, populated, passed to the save any
\* number of times, reset or not, and destroyed at scope exit
NextSave ==
    \/ Construct(LocalSchema)
    \/ \E sh \in SchemaShapes : Populate(LocalSchema, sh)
    \/ \E accepted \in BOOLEAN : SaveSchema(LocalSchema, accepted)
    \/ Reset(LocalSchema)
    \/ Destroy(LocalSchema)

-----------------------------------------------------------------------------
(* ScopedSchema's move operations *)

\* the body shared by the move constructor and the move assignment:
\* schema = std::move(other.schema) copies counts and pointers, then
\* other.reset() frees what those pointers refer to and clears `other`
MoveFrom(dst, other, op) ==
    LET pointers == ResetFrees(objSchema[other])
    IN  /\ \A p \in 1..Len(freeCount) : Free(freeCount, pointers)[p] <= MaxFrees
        /\ objSchema' = [objSchema EXCEPT ![dst] = objSchema[other],
                                          ![other] = Clear(objSchema[other])]
        /\ freeCount' = Free(freeCount, pointers)
        /\ schemaCall' = [NoSchemaCall EXCEPT
                             !.op = op, !.obj = dst, !.from = other,
                             !.wasEmpty = (objSchema[dst] = EmptySchema),
                             !.moved = objSchema[other],
                             !.freed = SelectSeq(pointers, LAMBDA p : p # NullPtr)]
        /\ UNCHANGED <<mem, owner>>

\* ScopedSchema::ScopedSchema(ScopedSchema&& other)
MoveConstruct(dst, other) ==
    /\ dst # other
    /\ objState[dst] = "unborn"
    /\ objState[other] = "alive"
    /\ MoveFrom(dst, other, "moveConstruct")
    /\ objState' = [objState EXCEPT ![dst] = "alive"]
    /\ UNCHANGED <<handed, sceneVars, streamVars, queueVars, editorVars>>

\* ScopedSchema::operator=(ScopedSchema&& other)
MoveAssign(dst, other) ==
    /\ dst # other
    /\ objState[dst] = "alive"
    /\ objState[other] = "alive"
    /\ MoveFrom(dst, other, "moveAssign")
    /\ UNCHANGED objState
    /\ UNCHANGED <<handed, sceneVars, streamVars, queueVars, editorVars>>

\* whether reset() on the schema would read or free memory already freed
Dangling(sch) ==
    \E k \in 1..Len(ResetFrees(sch)) :
        ResetFrees(sch)[k] # NullPtr /\ freeCount[ResetFrees(sch)[k]] > 0

\* reset() or the destructor on a schema whose pointers dangle is undefined:
\* it either runs on the stale contents (Reset, Destroy) or the process faults
DanglingFault(o) ==
    /\ objState[o] = "alive"
    /\ Dangling(objSchema[o])
    /\ objState' = [x \in Objects |-> "faulted"]
    /\ schemaCall' = [NoSchemaCall EXCEPT !.op = "fault", !.obj = o,
                                          !.wasEmpty = FALSE]
    /\ UNCHANGED <<objSchema, mem, freeCount, owner>>
    /\ UNCHANGED <<handed, sceneVars, streamVars, queueVars, editorVars>>

NextMove ==
    \/ NextHeap
    \/ \E dst \in Objects, other \in Objects : MoveConstruct(dst, other)
    \/ \E dst \in Objects, other \in Objects : MoveAssign(dst, other)
    \/ \E o \in Objects : DanglingFault(o)

-----------------------------------------------------------------------------
(***************************************************************************)
(* FRenderStreamEditorModule: the exposed parameters of a level, the       *)
(* schema generated from the channel caches and the save of that schema.   *)
(*                                                                         *)
(* An FString is the sequence of its code points, a char* string is the    *)
(* sequence of its bytes, and a float is the integer of its thousandths.   *)
(***************************************************************************)

Float(x) == x * 1000

\* one code point as its UTF-8 bytes
Utf8Char(c) ==
    IF c < 128 THEN <<c>>
    ELSE IF c < 2048 THEN <<192 + (c \div 64), 128 + (c % 64)>>
    ELSE <<224 + (c \div 4096), 128 + ((c \div 64) % 64), 128 + (c % 64)>>

RECURSIVE TCHAR_TO_UTF8(_)
TCHAR_TO_UTF8(s) ==
    IF s = <<>> THEN <<>> ELSE Utf8Char(Head(s)) \o TCHAR_TO_UTF8(Tail(s))

\* the narrowing conversion: a code point outside 7-bit ASCII becomes '?'
TCHAR_TO_ANSI(s) == [i \in 1..Len(s) |-> IF s[i] > 127 THEN 63 ELSE s[i]]

\* FString(const ANSICHAR*): every byte becomes one character
FStringFromChars(bytes) == bytes

RECURSIVE UTF8_TO_TCHAR(_)
UTF8_TO_TCHAR(b) ==
    IF b = <<>> THEN <<>>
    ELSE IF b[1] < 128 THEN <<b[1]>> \o UTF8_TO_TCHAR(Tail(b))
    ELSE IF b[1] >= 192 /\ b[1] < 224 /\ Len(b) >= 2
        THEN <<(b[1] - 192) * 64 + (b[2] - 128)>>
                 \o UTF8_TO_TCHAR(SubSeq(b, 3, Len(b)))
    ELSE IF b[1] >= 224 /\ Len(b) >= 3
        THEN <<(b[1] - 224) * 4096 + (b[2] - 128) * 64 + (b[3] - 128)>>
                 \o UTF8_TO_TCHAR(SubSeq(b, 4, Len(b)))
    ELSE <<63>> \o UTF8_TO_TCHAR(Tail(b))

\* operator< of std::string
RECURSIVE StringLess(_, _)
StringLess(a, b) ==
    IF b = <<>> THEN FALSE
    ELSE IF a = <<>> THEN TRUE
    ELSE IF a[1] # b[1] THEN a[1] < b[1]
    ELSE StringLess(Tail(a), Tail(b))

\* iteration over a std::set<std::string>: every element once, in order
RECURSIVE SetOrder(_)
SetOrder(S) ==
    IF S = {} THEN <<>>
    ELSE LET first == CHOOSE s \in S : \A t \in S \ {s} : StringLess(s, t)
         IN  <<first>> \o SetOrder(S \ {first})

RECURSIVE Concat(_)
Concat(ss) == IF ss = <<>> THEN <<>> ELSE Head(ss) \o Concat(Tail(ss))

\* the labels and names the editor world uses
StrOff   == <<79, 102, 102>>
StrOn    == <<79, 110>>
Category == <<71>>
MainMapName  == <<66, 97, 115, 101>>
SubLevelName == <<70, 111, 114, 101, 115, 116>>
CaveName     == <<67, 97, 118, 101>>

\* the actors that may carry a channel definition: "a", e-acute, pi
ActorNames == <<<<97>>, <<233>>, <<960>>>>

\* the level script properties a level may expose
BoolProperty   == [kind |-> "bool", name |-> <<97>>, enum |-> <<>>]
ByteProperty   == [kind |-> "byte", name |-> <<98>>,
                   enum |-> <<<<76, 111>>, <<77, 105, 100>>, <<72, 105>>>>]
FloatProperty  == [kind |-> "float", name |-> <<233>>, enum |-> <<>>]
StructProperty == [kind |-> "vector", name |-> <<960>>, enum |-> <<>>]

Properties == {BoolProperty, ByteProperty, FloatProperty, StructProperty}

FieldArgs(group, displayName_, suffix, key_, undecoratedSuffix, min, max, step, defaultValue, options) ==
    [group |-> group, displayName_ |-> displayName_, suffix |-> suffix,
     key_ |-> key_, undecoratedSuffix |-> undecoratedSuffix, min |-> min,
     max |-> max, step |-> step, defaultValue |-> defaultValue,
     options |-> options]

\* the variant that keeps the range it was passed
CreateField_KeepsRange(a) ==
    [Group |-> a.group,
     DisplayName |-> a.displayName_
         \o (IF a.suffix = <<>> THEN <<>> ELSE <<32>> \o a.suffix),
     Key |-> a.key_
         \o (IF a.undecoratedSuffix = <<>> THEN <<>>
             ELSE <<95>> \o a.undecoratedSuffix),
     Min |-> a.min, Max |-> a.max, Step |-> a.step,
     DefaultValue |-> a.defaultValue,
     Options |-> a.options,
     DmxOffset |-> -1,
     DmxType |-> 2]

CreateField(a) ==
    LET key == a.key_
                   \o (IF a.undecoratedSuffix = <<>> THEN <<>>
                       ELSE <<95>> \o a.undecoratedSuffix)
        displayName == a.displayName_
                   \o (IF a.suffix = <<>> THEN <<>> ELSE <<32>> \o a.suffix)
        enumerated == Len(a.options) > 0
    IN  [Group |-> a.group,
         DisplayName |-> displayName,
         Key |-> key,
         Min |-> IF enumerated THEN Float(0) ELSE a.min,
         Max |-> IF enumerated THEN Float(Len(a.options) - 1) ELSE a.max,
         Step |-> IF enumerated THEN Float(1) ELSE a.step,
         DefaultValue |-> a.defaultValue,
         Options |-> a.options,
         DmxOffset |-> -1,
         DmxType |-> 2]

\* the CreateField calls GenerateParameters makes for one property
PropertyFields(p) ==
    IF p.kind = "bool" THEN
        <<FieldArgs(Category, p.name, <<>>, p.name, <<>>,
                    Float(0), Float(1), Float(1), Float(1), <<StrOff, StrOn>>)>>
    ELSE IF p.kind = "byte" THEN
        <<FieldArgs(Category, p.name, <<>>, p.name, <<>>,
                    Float(0), Float(255), Float(1), Float(1), p.enum)>>
    ELSE IF p.kind = "float" THEN
        <<FieldArgs(Category, p.name, <<>>, p.name, <<>>,
                    Float(-1), Float(1), 1, 500, <<>>)>>
    ELSE
        <<FieldArgs(Category, p.name, <<120>>, p.name, <<120>>,
                    Float(-1), Float(1), 1, 0, <<>>),
          FieldArgs(Category, p.name, <<121>>, p.name, <<121>>,
                    Float(-1), Float(1), 1, 0, <<>>),
          FieldArgs(Category, p.name, <<122>>, p.name, <<122>>,
                    Float(-1), Float(1), 1, 0, <<>>)>>

\* every CreateField call for the properties of a level script actor, in order
FieldCalls(props) == Concat([i \in 1..Len(props) |-> PropertyFields(props[i])])

GenerateParameters(props) ==
    LET calls == FieldCalls(props)
    IN  [i \in 1..Len(calls) |-> CreateField(calls[i])]

\* the levels the editor may have open: the main map with the actors that
\* carry a channel definition, its exposed properties and its sub-levels
PropertyLists == UNION {[1..n -> Properties] : n \in 0..MaxProperties}

ActorSets == SUBSET (1..Len(ActorNames))

\* the levels of the project: the default map, a level used as a sub-level
\* and a second map
EditorLevels == {MainMapName, SubLevelName, CaveName}

\* the orders in which the object library may list the caches
LibraryOrders ==
    {order \in [1..Cardinality(EditorLevels) -> EditorLevels] :
        \A i, j \in DOMAIN order : order[i] = order[j] => i = j}

DefaultOrder == <<MainMapName, SubLevelName, CaveName>>

\* the streaming levels of each level's world
SubLevelsOf(main, cave) ==
    [l \in EditorLevels |->
        IF l = MainMapName THEN main ELSE IF l = CaveName THEN cave ELSE <<>>]

\* the projects the editor may have open: the actors of the default map that
\* carry a channel definition, its exposed properties, the sub-levels of each
\* level and the order of the object library. Worlds that vary the content
\* of the default map have no sub-level or one; worlds that vary the layout
\* have no channels and expose bools and vectors only.
ContentWorlds ==
    [actors : ActorSets, properties : PropertyLists,
     SceneSelector : {"None"},
     SubLevels : {SubLevelsOf(<<>>, <<>>)},
     Library : {DefaultOrder}]
    \cup
    [actors : ActorSets, properties : PropertyLists,
     SceneSelector : {"StreamingLevels"},
     SubLevels : {SubLevelsOf(<<SubLevelName>>, <<>>)},
     Library : {DefaultOrder}]

\* the property lists of the worlds that vary the layout: bools and vectors
LayoutLists == {props \in PropertyLists :
                   \A i \in 1..Len(props) :
                       props[i] \in {BoolProperty, StructProperty}}

StreamingWorlds ==
    [actors : {{}}, properties : LayoutLists,
     SceneSelector : {"StreamingLevels"},
     SubLevels : {SubLevelsOf(main, <<>>) :
                     main \in {<<>>, <<SubLevelName>>, <<CaveName>>,
                               <<SubLevelName, CaveName>>,
                               <<CaveName, SubLevelName>>}},
     Library : {DefaultOrder}]

MapsWorlds ==
    [actors : {{}}, properties : LayoutLists,
     SceneSelector : {"Maps"},
     SubLevels : {SubLevelsOf(main, cave) :
                     main \in {<<>>, <<SubLevelName>>},
                     cave \in {<<>>, <<SubLevelName>>}},
     Library : LibraryOrders]

EditorWorlds == ContentWorlds \cup StreamingWorlds \cup MapsWorlds

\* the actors of Level->Actors with a channel definition, in order
ChannelActors(world, level) ==
    LET Pick(i) == IF level = MainMapName /\ i \in world.actors
                   THEN <<ActorNames[i]>> ELSE <<>>
    IN  Concat([i \in 1..Len(ActorNames) |-> Pick(i)])

\* the exposed properties of the level's script actor: the default map's are
\* the world's, the sub-level exposes a bool and the second map a float
LevelProperties(world, level) ==
    IF level = MainMapName THEN world.properties
    ELSE IF level = SubLevelName THEN <<BoolProperty>>
    ELSE <<FloatProperty>>

UpdateLevelChannelCache(world, level) ==
    LET actors == ChannelActors(world, level)
    IN  [Level |-> level,
         Channels |-> [i \in 1..Len(actors) |->
                           FStringFromChars(TCHAR_TO_UTF8(actors[i]))],
         ExposedParams |-> GenerateParameters(LevelProperties(world, level)),
         SubLevels |-> world.SubLevels[level]]

ConvertFields(input) ==
    [i \in 1..Len(input) |->
        [group |-> TCHAR_TO_UTF8(input[i].Group),
         displayName |-> TCHAR_TO_UTF8(input[i].DisplayName),
         key |-> TCHAR_TO_UTF8(input[i].Key),
         min |-> input[i].Min,
         max |-> input[i].Max,
         step |-> input[i].Step,
         defaultValue |-> input[i].DefaultValue,
         nOptions |-> Len(input[i].Options),
         options |-> [j \in 1..Len(input[i].Options) |->
                          TCHAR_TO_UTF8(input[i].Options[j])],
         dmxOffset |-> -1,
         dmxType |-> 2]]

\* the variant that writes the cache's own parameters before the inherited ones
GenerateScene_OwnFirst(cache, persistent, garbage) ==
    LET inherited == IF persistent = <<>> THEN <<>>
                     ELSE ConvertFields(persistent[1].ExposedParams)
        own == ConvertFields(cache.ExposedParams)
    IN  [name |-> TCHAR_TO_UTF8(cache.Level),
         nParameters |-> Len(inherited) + Len(own),
         parameters |-> own \o inherited,
         hash |-> garbage]

\* hash is never assigned: it keeps whatever the allocation held
GenerateScene(cache, persistent, garbage) ==
    LET inherited == IF persistent = <<>> THEN <<>>
                     ELSE ConvertFields(persistent[1].ExposedParams)
        own == ConvertFields(cache.ExposedParams)
    IN  [name |-> TCHAR_TO_UTF8(cache.Level),
         nParameters |-> Len(inherited) + Len(own),
         parameters |-> inherited \o own,
         hash |-> garbage]

\* the elements of a sequence
Range(seq) == {seq[i] : i \in 1..Len(seq)}

\* the variant of the parent map in which the first cache to list a level
\* stays its parent
RECURSIVE LevelParents_KeepsFirst(_, _)
LevelParents_KeepsFirst(ChannelCaches, n) ==
    IF n = 0 THEN <<>>
    ELSE LET before == LevelParents_KeepsFirst(ChannelCaches, n - 1)
             Cache == ChannelCaches[n]
         IN  [l \in DOMAIN before \cup Range(Cache.SubLevels) |->
                 IF l \in DOMAIN before THEN before[l] ELSE Cache.Level]

\* the TMap LevelParents of Maps mode after the first n caches: Add replaces
\* the value of a key that is already there
RECURSIVE LevelParents(_, _)
LevelParents(ChannelCaches, n) ==
    IF n = 0 THEN <<>>
    ELSE LET before == LevelParents(ChannelCaches, n - 1)
             Cache == ChannelCaches[n]
         IN  [l \in DOMAIN before \cup Range(Cache.SubLevels) |->
                 IF l \in Range(Cache.SubLevels) THEN Cache.Level ELSE before[l]]

\* the Schema that GenerateAssetMetadata fills in before the save
GeneratedSchema(world, garbage) ==
    LET ChannelCaches == [i \in 1..Len(world.Library) |->
                             UpdateLevelChannelCache(world, world.Library[i])]
        LevelParams(Path) == UpdateLevelChannelCache(world, Path)
        MainMap == LevelParams(MainMapName)
        Channels == UNION {{TCHAR_TO_ANSI(ChannelCaches[i].Channels[j]) :
                               j \in 1..Len(ChannelCaches[i].Channels)} :
                           i \in 1..Len(ChannelCaches)}
        Parents == LevelParents(ChannelCaches, Len(ChannelCaches))
        Entry(Cache) == IF Cache.Level \in DOMAIN Parents
                        THEN <<LevelParams(Parents[Cache.Level])>> ELSE <<>>
    IN  [channels |-> SetOrder(Channels),
         scenes |->
            IF world.SceneSelector = "None"
            THEN <<GenerateScene(MainMap, <<>>, garbage)>>
            ELSE IF world.SceneSelector = "StreamingLevels"
            THEN <<GenerateScene(MainMap, <<>>, garbage)>>
                 \o [i \in 1..Len(MainMap.SubLevels) |->
                        GenerateScene(LevelParams(MainMap.SubLevels[i]),
                                      <<MainMap>>, garbage)]
            ELSE [i \in 1..Len(ChannelCaches) |->
                     GenerateScene(ChannelCaches[i], Entry(ChannelCaches[i]),
                                   garbage)]]

NoEditorCall ==
    [op |-> "none", world |-> <<>>, calls |-> <<>>, fields |-> <<>>,
     schema |-> <<>>, saved |-> FALSE, result |-> "none", log |-> "none",
     since |-> 0, handled |-> 0, called |-> FALSE]

InitEditor ==
    /\ DirtyAssetMetadata = FALSE
    /\ saveAttempts = 0
    /\ editorCall = NoEditorCall

\* the variant that marks the metadata dirty whatever the save returned
OnPostSaveWorld_IgnoresResult(bSuccess) ==
    /\ bSuccess => editorCall.since < MaxEvents
    /\ DirtyAssetMetadata' = TRUE
    /\ editorCall' = [NoEditorCall EXCEPT
                         !.op = "OnPostSaveWorld",
                         !.since = IF bSuccess THEN editorCall.since + 1
                                   ELSE editorCall.since]
    /\ UNCHANGED saveAttempts
    /\ UNCHANGED <<sceneVars, streamVars, queueVars, heapVars>>

\* `since` counts the successful world saves and the deletions of a world
\* since the last frame
OnPostSaveWorld(bSuccess) ==
    /\ bSuccess => editorCall.since < MaxEvents
    /\ DirtyAssetMetadata' = (IF bSuccess THEN TRUE ELSE DirtyAssetMetadata)
    /\ editorCall' = [NoEditorCall EXCEPT
                         !.op = "OnPostSaveWorld",
                         !.since = IF bSuccess THEN editorCall.since + 1
                                   ELSE editorCall.since]
    /\ UNCHANGED saveAttempts
    /\ UNCHANGED <<sceneVars, streamVars, queueVars, heapVars>>

OnAssetsDeleted(deletedWorld) ==
    /\ deletedWorld => editorCall.since < MaxEvents
    /\ DirtyAssetMetadata' = (IF deletedWorld THEN TRUE ELSE DirtyAssetMetadata)
    /\ editorCall' = [NoEditorCall EXCEPT
                         !.op = "OnAssetsDeleted",
                         !.since = IF deletedWorld THEN editorCall.since + 1
                                   ELSE editorCall.since]
    /\ UNCHANGED saveAttempts
    /\ UNCHANGED <<sceneVars, streamVars, queueVars, heapVars>>

\* the record of one GenerateAssetMetadata call
GenerateAssetMetadata(world, isAvailable, accepted, garbage) ==
    IF ~isAvailable
    THEN [NoEditorCall EXCEPT !.op = "OnBeginFrame", !.world = world,
                              !.log = "RenderStreamLink unavailable",
                              !.called = TRUE]
    ELSE [op |-> "OnBeginFrame",
          world |-> world,
          calls |-> FieldCalls(world.properties),
          fields |-> GenerateParameters(world.properties),
          schema |-> GeneratedSchema(world, garbage),
          saved |-> TRUE,
          result |-> IF accepted THEN "RS_ERROR_SUCCESS" ELSE "rejected",
          log |-> IF accepted THEN "none" ELSE "Failed to save schema",
          since |-> 0, handled |-> 0, called |-> TRUE]

\* what a frame finds outside the module: whether the router library is
\* there and, if it is, what rs_saveSchema answers and what malloc returned
SaveOutcomes ==
    {[isAvailable |-> FALSE, accepted |-> FALSE, garbage |-> 0]}
        \cup [isAvailable : {TRUE}, accepted : BOOLEAN, garbage : Garbage]

\* the variant that stays dirty when the router rejects the schema
OnBeginFrame_RetriesRejected ==
    /\ IF DirtyAssetMetadata
       THEN \E world \in EditorWorlds, out \in SaveOutcomes :
                /\ out.isAvailable => saveAttempts < MaxSaveEvents
                /\ editorCall' =
                       [GenerateAssetMetadata(world, out.isAvailable,
                                              out.accepted, out.garbage)
                           EXCEPT !.handled = editorCall.since]
                /\ saveAttempts' = (IF out.isAvailable THEN saveAttempts + 1
                                    ELSE saveAttempts)
                /\ DirtyAssetMetadata' = (out.isAvailable /\ ~out.accepted)
       ELSE /\ editorCall' = [NoEditorCall EXCEPT !.op = "OnBeginFrame",
                                                  !.handled = editorCall.since]
            /\ UNCHANGED <<saveAttempts, DirtyAssetMetadata>>
    /\ UNCHANGED <<sceneVars, streamVars, queueVars, heapVars>>

OnBeginFrame ==
    /\ IF DirtyAssetMetadata
       THEN \E world \in EditorWorlds, out \in SaveOutcomes :
                /\ out.isAvailable => saveAttempts < MaxSaveEvents
                /\ editorCall' =
                       [GenerateAssetMetadata(world, out.isAvailable,
                                              out.accepted, out.garbage)
                           EXCEPT !.handled = editorCall.since]
                /\ saveAttempts' = (IF out.isAvailable THEN saveAttempts + 1
                                    ELSE saveAttempts)
                /\ DirtyAssetMetadata' = FALSE
       ELSE /\ editorCall' = [NoEditorCall EXCEPT !.op = "OnBeginFrame",
                                                  !.handled = editorCall.since]
            /\ UNCHANGED <<saveAttempts, DirtyAssetMetadata>>
    /\ UNCHANGED <<sceneVars, streamVars, queueVars, heapVars>>

NextEditor ==
    \/ \E bSuccess \in BOOLEAN : OnPostSaveWorld(bSuccess)
    \/ \E deletedWorld \in BOOLEAN : OnAssetsDeleted(deletedWorld)
    \/ OnBeginFrame

-----------------------------------------------------------------------------

Init == InitScene /\ InitStream /\ InitQueue /\ InitHeap /\ InitEditor

Next ==
    \/ NextScene
    \/ NextStream
    \/ NextQueue
    \/ NextMove
    \/ \E o \in Objects, accepted \in BOOLEAN : SaveSchema(o, accepted)
    \/ NextEditor

\* the whole program
Spec == Init /\ [][Next]_vars

\* the scene selector and its world alone
SceneSpec == Init /\ [][NextScene]_vars

\* one frame stream alone
StreamSpec == Init /\ [][NextStream]_vars

\* the response queue and its two threads alone
QueueSpec == Init /\ [][NextQueue]_vars

\* the selector polled every frame: the schema is loaded once, ApplyScene is
\* called for every scene id again and again, requested loads complete and
\* nothing unloads a level
PollSpec ==
    /\ Init
    /\ [][NextPoll]_vars
    /\ \A l \in Levels : WF_vars(LoadComplete(l))
    /\ \A sceneId \in 0..MaxScenes : WF_vars(ApplyScene(sceneId))

\* the selector with one schema load, in a world that loads and unloads levels
WorldSpec == Init /\ [][NextWorld]_vars

\* ScopedSchema objects that are populated, reset and destroyed, never moved
HeapSpec == Init /\ [][NextHeap]_vars

\* ScopedSchema objects with their move operations
MoveSpec == Init /\ [][NextMove]_vars

\* ScopedSchema objects that are populated, saved and released
SaveSpec == Init /\ [][NextSave]_vars

\* the editor module alone: saves, deletions and frames
EditorSpec == Init /\ [][NextEditor]_vars

-----------------------------------------------------------------------------
(* Claims about the scene selector *)

\* the step is a call ApplyScene(sceneId)
IsApplyScene(sceneId) ==
    sceneCall'.op = "ApplyScene" /\ sceneCall'.scene = sceneId

\* the scenes the last call ran ValidateLevel on
ValidatedScenes(call) == {call.validated[k].scene : k \in 1..Len(call.validated)}

\* C1: ApplyScene(i) on an in-range binding that is not marked loaded and whose
\* streaming level is not loaded requests the load of that level and returns:
\* no binding's loaded flag, no level's visibility and no applied parameter
\* changes.
C1_LoadRequestedNotActivated ==
    [][\A i \in 0..MaxScenes :
          (/\ IsApplyScene(i)
           /\ i < Len(m_specs)
           /\ ~m_specs[i + 1].loaded
           /\ m_specs[i + 1].streamingLevel # NoLevel
           /\ ~levelLoaded[m_specs[i + 1].streamingLevel])
          => /\ sceneCall'.requested = {m_specs[i + 1].streamingLevel}
             /\ m_specs[i + 1].streamingLevel \in loadPending'
             /\ m_specs' = m_specs
             /\ shouldBeVisible' = shouldBeVisible
             /\ applied' = applied
             /\ ~sceneCall'.appliedNow
             /\ sceneCall'.validated = <<>>]_vars

\* a load was requested for a scene whose level is still not loaded
C1_Witness ==
    /\ sceneCall.op = "ApplyScene"
    /\ sceneCall.scene < Len(m_specs)
    /\ sceneCall.requested # {}
    /\ ~m_specs[sceneCall.scene + 1].loaded
    /\ ~levelLoaded[m_specs[sceneCall.scene + 1].streamingLevel]

\* C2: ApplyScene(i) on a binding with a streaming level that has finished
\* loading leaves the binding marked loaded, has validated scene i if the
\* binding was not marked loaded before, makes that level visible and every
\* other level not visible, and applies the parameters of the shared root
\* followed by the level's own root.
C2_LoadedLevelActivated ==
    [][\A i \in 0..MaxScenes :
          (/\ IsApplyScene(i)
           /\ i < Len(m_specs)
           /\ m_specs[i + 1].streamingLevel # NoLevel
           /\ levelLoaded[m_specs[i + 1].streamingLevel])
          => LET mine == m_specs[i + 1].streamingLevel IN
             /\ m_specs'[i + 1].loaded
             /\ (~m_specs[i + 1].loaded => i \in ValidatedScenes(sceneCall'))
             /\ shouldBeVisible' = [l \in Levels |-> l = mine]
             /\ sceneCall'.appliedNow
             /\ applied' = <<m_specs[i + 1].persistentRoot, LevelActors[mine]>>]_vars

\* the Cave scene was activated by the call that also marked it loaded and
\* validated it, with both levels loaded: Cave is visible and Forest is not
C2_Witness ==
    /\ sceneCall.op = "ApplyScene"
    /\ sceneCall.scene < Len(m_specs)
    /\ sceneCall.scene \in ValidatedScenes(sceneCall)
    /\ m_specs[sceneCall.scene + 1].streamingLevel = 2
    /\ shouldBeVisible = [l \in Levels |-> l = 2]
    /\ levelLoaded = [l \in Levels |-> TRUE]
    /\ applied = <<m_specs[sceneCall.scene + 1].persistentRoot, LevelActors[2]>>

\* C3: ApplyScene(sceneIndex) with sceneIndex >= the number of bindings logs an
\* error and changes nothing: bindings, visibility, applied parameters and
\* pending load requests are as before the call.
C3_OutOfRangeChangesNothing ==
    [][\A i \in 0..MaxScenes :
          (IsApplyScene(i) /\ i >= Len(m_specs))
          => /\ sceneCall'.error
             /\ sceneCall'.requested = {}
             /\ ~sceneCall'.appliedNow
             /\ UNCHANGED <<schema, m_specs, levelLoaded, shouldBeVisible,
                            loadPending, applied>>]_vars

\* an out-of-range call was made while a level was visible and a schema bound
C3_Witness ==
    /\ sceneCall.op = "ApplyScene"
    /\ sceneCall.error
    /\ sceneCall.scene >= Len(m_specs)
    /\ Len(m_specs) > 0
    /\ \E l \in Levels : shouldBeVisible[l]

\* scene i (0-based) of the stored schema is bound by binding i
IsBoundTo(i) ==
    /\ m_specs[i + 1].streamingLevel = findStreamingLevelByName(schema[i + 1].name)
    /\ m_specs[i + 1].hash = schema[i + 1].hash
    /\ m_specs[i + 1].nParameters = schema[i + 1].nParameters
    /\ m_specs[i + 1].persistentRoot = persistentRoot

\* C4: OnLoadedSchema produces one binding per schema scene, in schema order;
\* a scene with no matching level or with a loaded matching level is marked
\* loaded and validated during the call; a scene whose matching level is not
\* loaded is left not loaded and not validated.
C4_SchemaBinding ==
    sceneCall.op = "OnLoadedSchema" =>
        /\ Len(m_specs) = Len(schema)
        /\ \A i \in 0..(Len(schema) - 1) :
              LET l == findStreamingLevelByName(schema[i + 1].name) IN
              /\ IsBoundTo(i)
              /\ (l = NoLevel \/ levelLoaded[l])
                    => (m_specs[i + 1].loaded /\ i \in ValidatedScenes(sceneCall))
              /\ (l # NoLevel /\ ~levelLoaded[l])
                    => (~m_specs[i + 1].loaded /\ i \notin ValidatedScenes(sceneCall))

\* C5: a failed validation of one scene does not stop OnLoadedSchema: every
\* later scene is bound, every later resident scene is validated, and the call
\* returns success.
C5_FailureDoesNotAbort ==
    (sceneCall.op = "OnLoadedSchema"
        /\ \E k \in 1..Len(sceneCall.validated) : ~sceneCall.validated[k].ok)
    => /\ sceneCall.ret
       /\ Len(m_specs) = Len(schema)
       /\ \A i \in 0..(Len(schema) - 1) :
             LET l == findStreamingLevelByName(schema[i + 1].name) IN
             /\ IsBoundTo(i)
             /\ (l = NoLevel \/ levelLoaded[l]) => i \in ValidatedScenes(sceneCall)

\* the first scene failed validation and a later one was validated successfully
C5_Witness ==
    /\ sceneCall.op = "OnLoadedSchema"
    /\ Len(sceneCall.validated) >= 2
    /\ ~sceneCall.validated[1].ok
    /\ sceneCall.validated[2].ok
    /\ sceneCall.ret

-----------------------------------------------------------------------------
(* Claims about the frame stream *)

\* C6: Setup on a stream whose handle is already non-zero returns failure and
\* mutates nothing: handle, channel, clipping, resolution, stream name, image,
\* fence and fence value keep the values of the first binding.
C6_SetupOnBoundStreamFails ==
    [][(streamCall'.op = "Setup" /\ m_handle # NoHandle)
          => /\ ~streamCall'.ret
             /\ UNCHANGED <<m_handle, m_channel, m_clipping, m_resolution,
                            m_streamName, m_bufTexture, m_fence, m_fenceValue,
                            allocated, sent>>]_vars

\* a second Setup with another description and another handle was refused on
\* a stream that holds an image and a fence
C6_Witness ==
    /\ streamCall.op = "Setup"
    /\ ~streamCall.ret
    /\ m_handle # NoHandle
    /\ streamCall.handle \notin {NoHandle, m_handle}
    /\ streamCall.name # m_streamName
    /\ streamCall.channel # m_channel
    /\ streamCall.resolution # m_resolution
    /\ streamCall.clipping # m_clipping
    /\ m_bufTexture # NoResource
    /\ m_fence # NoResource

C8_FenceValueEven ==
    /\ m_fenceValue % 2 = 0
    /\ \A k \in 1..Len(sent) : sent[k].fenceValue % 2 = 0

\* a frame was just sent on a stream that was set up with a handle
C8_Witness ==
    /\ streamCall.op = "SendFrame"
    /\ m_handle # NoHandle
    /\ Len(sent) >= 2
    /\ m_fenceValue > InitialFenceValue

-----------------------------------------------------------------------------
(* Claims about the response queue *)

\* C9: whatever the interleaving of the control thread's pushes and the render
\* thread's pops, the records popped so far followed by the records still
\* queued are exactly the records pushed so far, in push order: the N-th
\* successful pop returned the N-th pushed record, none twice, none lost.
C9_QueueIsFifo ==
    /\ pushed = popped \o m_frameResponses
    /\ \A n \in 1..Len(popped) : popped[n] = pushed[n]
    /\ \A i, j \in 1..Len(popped) : popped[i] = popped[j] => i = j

\* the render thread has just popped the second record while a third one is
\* still queued
C9_Witness ==
    /\ pcRender = "popped"
    /\ m_frameResponsesLock = "render"
    /\ Len(popped) = 2
    /\ Len(pushed) = 3
    /\ Len(m_frameResponses) = 1
    /\ queueCall.result = "data"
    /\ queueCall.response = pushed[2]

-----------------------------------------------------------------------------
(* Claims about ScopedSchema *)

\* the allocations object o holds: those its population made, while its schema
\* still refers to them
Held(o) ==
    IF objSchema[o] = EmptySchema THEN {}
    ELSE {p \in 1..Len(owner) : owner[p] = o}

\* C10: reset is idempotent. A reset (or the destructor) on a populated schema
\* frees every string and array the schema owns exactly once and leaves the
\* schema empty; a reset or the destructor on an already reset schema frees
\* nothing. So after any number of resets every allocation of the object has
\* been freed exactly once.
C10_ResetIdempotent ==
    /\ [][\A o \in Objects :
            (schemaCall'.op \in {"reset", "destroy"} /\ schemaCall'.obj = o)
            => /\ objSchema'[o] = EmptySchema
               /\ \A p \in 1..Len(freeCount) :
                     freeCount'[p] = freeCount[p] + (IF p \in Held(o) THEN 1 ELSE 0)
               /\ (objSchema[o] = EmptySchema => freeCount' = freeCount)]_vars
    /\ [](schemaCall.op \in {"reset", "destroy"}
            => \A p \in 1..Len(owner) :
                  owner[p] = schemaCall.obj => freeCount[p] = 1)

\* the destructor ran on a schema that had been populated with channels,
\* scenes, parameters and options and then reset: every allocation of it has
\* been freed once
C10_Witness ==
    /\ schemaCall.op = "destroy"
    /\ schemaCall.wasEmpty
    /\ schemaCall.freed = <<>>
    /\ Cardinality({p \in 1..Len(owner) : owner[p] = schemaCall.obj}) > 20
    /\ \A p \in 1..Len(owner) : owner[p] = schemaCall.obj => freeCount[p] = 1

\* the allocations reset() on the schema would free
Referenced(sch) ==
    {ResetFrees(sch)[k] : k \in 1..Len(ResetFrees(sch))} \ {NullPtr}

\* C11: after a move (construction or assignment) the source is empty, the
\* destination refers to the source's former allocations and none of those
\* allocations has been freed.
C11_MoveTransfersOwnership ==
    schemaCall.op \in {"moveConstruct", "moveAssign"}
    => /\ objSchema[schemaCall.from] = EmptySchema
       /\ objSchema[schemaCall.obj] = schemaCall.moved
       /\ \A p \in Referenced(objSchema[schemaCall.obj]) : freeCount[p] = 0

\* C12: after a move assignment into a schema that held contents, every
\* allocation the destination held before has been freed exactly once.
C12_MoveAssignReleasesOld ==
    (schemaCall.op = "moveAssign" /\ ~schemaCall.wasEmpty)
    => \A p \in 1..Len(owner) :
          (owner[p] = schemaCall.obj /\ p \notin Referenced(schemaCall.moved))
          => freeCount[p] = 1

-----------------------------------------------------------------------------
(* Further claims about the scene selector *)

\* a scene is invalid when its content is resolved (no level, or a loaded
\* level) and the schema's declaration does not validate against it; a scene
\* declared for a level the world lacks is of this kind
Invalid(sceneId) ==
    /\ sceneId < Len(m_specs)
    /\ sceneId < Len(schema)
    /\ IsResident(m_specs[sceneId + 1].streamingLevel)
    /\ ~ValidateLevel(sceneId, m_specs, schema, levelLoaded)

\* C13: ApplyScene on an invalid scene (its name matches no level although it
\* declares scene-specific parameters, or its validation fails) changes no
\* level's visibility and applies no parameters.
C13_InvalidNeverActivated ==
    [][\A sceneId \in 0..MaxScenes :
          (IsApplyScene(sceneId) /\ Invalid(sceneId))
          => /\ shouldBeVisible' = shouldBeVisible
             /\ applied' = applied
             /\ ~sceneCall'.appliedNow]_vars

\* whether binding sceneId is a base binding: no streaming level, and its
\* shared root is the persistent level's current script actor
IsBaseBinding(sceneId) ==
    /\ sceneId < Len(m_specs)
    /\ m_specs[sceneId + 1].streamingLevel = NoLevel
    /\ m_specs[sceneId + 1].persistentRoot = persistentRoot

\* C14: ApplyScene on a base binding that is marked loaded leaves every
\* streaming level not visible, applies the parameters of the shared root
\* only and requests no load.
C14_BaseSceneActivation ==
    [][\A sceneId \in 0..MaxScenes :
          (IsApplyScene(sceneId) /\ IsBaseBinding(sceneId)
              /\ m_specs[sceneId + 1].loaded)
          => /\ \A l \in Levels : ~shouldBeVisible'[l]
             /\ applied' = <<persistentRoot>>
             /\ sceneCall'.appliedNow
             /\ sceneCall'.requested = {}
             /\ loadPending' = loadPending
             /\ levelLoaded' = levelLoaded]_vars

\* the base scene was applied after the Forest scene had been: the Forest
\* level is still loaded and is hidden, and the shared root's parameters are
\* the ones applied
C14_Witness ==
    /\ sceneCall.op = "ApplyScene"
    /\ sceneCall.scene < Len(m_specs)
    /\ m_specs[sceneCall.scene + 1].streamingLevel = NoLevel
    /\ m_specs[sceneCall.scene + 1].persistentRoot = persistentRoot
    /\ sceneCall.appliedNow
    /\ applied = <<persistentRoot>>
    /\ \E k \in 1..Len(m_specs) :
          /\ m_specs[k].streamingLevel # NoLevel
          /\ m_specs[k].loaded
          /\ levelLoaded[m_specs[k].streamingLevel]
    /\ \A l \in Levels : ~shouldBeVisible[l]

\* the load of binding sceneId's level is pending
LoadIsPending(sceneId) ==
    /\ sceneId < Len(m_specs)
    /\ ~m_specs[sceneId + 1].loaded
    /\ m_specs[sceneId + 1].streamingLevel \in loadPending
    /\ ~levelLoaded[m_specs[sceneId + 1].streamingLevel]

\* binding sceneId is marked loaded and its level is visible
IsActive(sceneId) ==
    /\ sceneId < Len(m_specs)
    /\ m_specs[sceneId + 1].loaded
    /\ m_specs[sceneId + 1].streamingLevel # NoLevel
    /\ levelLoaded[m_specs[sceneId + 1].streamingLevel]
    /\ shouldBeVisible[m_specs[sceneId + 1].streamingLevel]

\* C15: every ApplyScene(i) made while scene i's load is pending leaves the
\* bindings and every level's visibility unchanged; and when loads complete
\* and ApplyScene(i) keeps being called, a scene whose load is pending is
\* eventually marked loaded with its level visible.
C15_PollingWhilePending ==
    /\ [][\A sceneId \in 0..MaxScenes :
            (IsApplyScene(sceneId) /\ LoadIsPending(sceneId))
            => /\ m_specs' = m_specs
               /\ shouldBeVisible' = shouldBeVisible
               /\ levelLoaded' = levelLoaded
               /\ applied' = applied]_vars
    /\ \A sceneId \in 0..(MaxScenes - 1) :
          LoadIsPending(sceneId) ~> IsActive(sceneId)

\* ApplyScene was called again on a scene whose load was already pending
C15_Witness ==
    /\ sceneCall.op = "ApplyScene"
    /\ sceneCall.wasPending
    /\ LoadIsPending(sceneCall.scene)
    /\ sceneCall.requested = {m_specs[sceneCall.scene + 1].streamingLevel}

\* C16: ApplyScene(i) called again right after an ApplyScene(i) that ran
\* through to the activation, nothing else happening in between, changes no
\* binding, no level's visibility and not the applied parameters, and does
\* not validate again the binding the first call left marked loaded.
C16_ReapplyIsNoOp ==
    [][\A sceneId \in 0..MaxScenes :
          (RepeatsActivation(sceneId) /\ IsApplyScene(sceneId))
          => /\ m_specs' = m_specs
             /\ shouldBeVisible' = shouldBeVisible
             /\ applied' = applied
             /\ sceneCall'.validated = <<>>]_vars

\* a second ApplyScene on a level scene whose first ApplyScene had marked it
\* loaded and validated it
C16_Witness ==
    /\ sceneCall.op = "ApplyScene"
    /\ sceneCall.again
    /\ IsActive(sceneCall.scene)
    /\ sceneCall.validated = <<>>

\* C17: a binding marked loaded has no streaming level or its streaming level
\* is currently loaded.
C17_LoadedImpliesResolvable ==
    \A k \in 1..Len(m_specs) :
        m_specs[k].loaded
        => \/ m_specs[k].streamingLevel = NoLevel
           \/ levelLoaded[m_specs[k].streamingLevel]

\* binding sceneId is marked loaded but its level has been unloaded
ContentGone(sceneId) ==
    /\ sceneId < Len(m_specs)
    /\ m_specs[sceneId + 1].loaded
    /\ m_specs[sceneId + 1].streamingLevel # NoLevel
    /\ ~levelLoaded[m_specs[sceneId + 1].streamingLevel]

\* C18: ApplyScene on a binding marked loaded whose level was unloaded since
\* does not activate: it takes the mark back, requests the level's load again
\* and changes no visibility.
C18_UnloadDetected ==
    [][\A sceneId \in 0..MaxScenes :
          (IsApplyScene(sceneId) /\ ContentGone(sceneId))
          => /\ ~m_specs'[sceneId + 1].loaded
             /\ sceneCall'.requested = {m_specs[sceneId + 1].streamingLevel}
             /\ shouldBeVisible' = shouldBeVisible
             /\ applied' = applied]_vars

-----------------------------------------------------------------------------
(* Further claims about the frame stream *)

\* C19: a Setup during which the creation of the image and the fence fails
\* returns failure and leaves the stream handle 0.
C19_FailedAllocationLeavesUnbound ==
    (streamCall.op = "Setup" /\ ~streamCall.created)
    => /\ ~streamCall.ret
       /\ m_handle = NoHandle

\* C20: Setup with handle 0 on an unbound stream returns failure and leaves
\* the stream handle 0, although the image and the fence were created when
\* their creation succeeded.
C20_ZeroHandleFails ==
    [][(streamCall'.op = "Setup" /\ streamCall'.handle = NoHandle
           /\ m_handle = NoHandle)
          => /\ ~streamCall'.ret
             /\ m_handle' = NoHandle
             /\ (streamCall'.created
                   => /\ m_bufTexture' # NoResource
                      /\ m_fence' # NoResource
                      /\ allocated' = allocated + 2)
             /\ m_fenceValue' = m_fenceValue
             /\ sent' = sent]_vars

\* Setup with handle 0 failed after the image and the fence were created
C20_Witness ==
    /\ streamCall.op = "Setup"
    /\ streamCall.handle = NoHandle
    /\ streamCall.created
    /\ ~streamCall.ret
    /\ m_handle = NoHandle
    /\ m_bufTexture # NoResource
    /\ m_fence # NoResource

\* C21: the stream's image is released only when the fence has reached the
\* value that signals the completion of the last submitted frame.
C21_ReleaseAfterFence ==
    (released /\ m_bufTexture # NoResource /\ sent # <<>>
        /\ sent[Len(sent)].image = m_bufTexture)
    => ~SendInFlight

\* p <= q for fractions <<numerator, denominator>> with positive denominators
FractionLeq(p, q) == p[1] * q[2] <= q[1] * p[2]

\* C22: for a source of positive width and height and a viewport rectangle
\* inside it, the sub-rectangle SendFrame computes has
\* 0 <= uLeft <= uRight <= 1 and 0 <= vTop <= vBottom <= 1.
C22_SubRectangleNormalised ==
    streamCall.op = "SendFrame"
    => /\ FractionLeq(<<0, 1>>, streamCall.u[1])
       /\ FractionLeq(streamCall.u[1], streamCall.u[2])
       /\ FractionLeq(streamCall.u[2], <<1, 1>>)
       /\ FractionLeq(<<0, 1>>, streamCall.v[1])
       /\ FractionLeq(streamCall.v[1], streamCall.v[2])
       /\ FractionLeq(streamCall.v[2], <<1, 1>>)

\* a frame was sent for a viewport that starts inside the source and reaches
\* its right edge, over the full height
C22_Witness ==
    /\ streamCall.op = "SendFrame"
    /\ streamCall.u = <<<<1, 2>>, <<2, 2>>>>
    /\ streamCall.v = <<<<0, 1>>, <<1, 1>>>>

-----------------------------------------------------------------------------
(* Further claims about the response queue *)

\* C23: a pop on the empty queue returns "no data" and leaves the queue
\* empty; a pop on a non-empty queue returns the head entry and leaves the
\* other entries in their order. Either way the pop completes in one step.
C23_PopOldest ==
    [][(pcRender = "locked" /\ pcRender' # "locked")
          => /\ pcRender' = "popped"
             /\ IF m_frameResponses = <<>>
                THEN /\ queueCall'.result = "no data"
                     /\ queueCall'.response = NoResponse
                     /\ m_frameResponses' = <<>>
                     /\ popped' = popped
                ELSE /\ queueCall'.result = "data"
                     /\ queueCall'.response = m_frameResponses[1]
                     /\ m_frameResponses' =
                            [k \in 1..(Len(m_frameResponses) - 1) |->
                                m_frameResponses[k + 1]]
                     /\ popped' = popped \o <<m_frameResponses[1]>>]_vars

\* the render thread popped the empty queue after it had drained two records
C23_Witness ==
    /\ pcRender = "popped"
    /\ queueCall.result = "no data"
    /\ m_frameResponses = <<>>
    /\ Len(pushed) = 2
    /\ popped = pushed

-----------------------------------------------------------------------------
(* Claims about the editor module's schema generation *)

\* a generated parameter read back as an exposed parameter entry
RebuiltEntry(parameter) ==
    [Group |-> UTF8_TO_TCHAR(parameter.group),
     DisplayName |-> UTF8_TO_TCHAR(parameter.displayName),
     Key |-> UTF8_TO_TCHAR(parameter.key),
     Min |-> parameter.min,
     Max |-> parameter.max,
     Step |-> parameter.step,
     DefaultValue |-> parameter.defaultValue,
     Options |-> [j \in 1..parameter.nOptions |->
                      UTF8_TO_TCHAR(parameter.options[j])],
     DmxOffset |-> parameter.dmxOffset,
     DmxType |-> parameter.dmxType]

\* the channel set, the scenes and the parameter lists read back from a Schema
Rebuilt(sch) ==
    [channels |-> {UTF8_TO_TCHAR(sch.channels[i]) : i \in 1..Len(sch.channels)},
     scenes |-> [i \in 1..Len(sch.scenes) |->
                    [name |-> UTF8_TO_TCHAR(sch.scenes[i].name),
                     parameters |->
                         [j \in 1..sch.scenes[i].nParameters |->
                             RebuiltEntry(sch.scenes[i].parameters[j])]]]]

\* the channel set, the scenes and the exposed parameter entries the schema
\* was generated from
Exposed(world) ==
    LET entries(level) == GenerateParameters(LevelProperties(world, level))
        listing(level) == {i \in 1..Len(world.Library) :
                              level \in Range(world.SubLevels[world.Library[i]])}
        inherited(level) ==
            IF listing(level) = {} THEN <<>>
            ELSE entries(world.Library[CHOOSE i \in listing(level) :
                                           \A j \in listing(level) : j <= i])
        main == [name |-> MainMapName, parameters |-> entries(MainMapName)]
        sub(level) == [name |-> level,
                       parameters |-> entries(MainMapName) \o entries(level)]
    IN  [channels |-> {ActorNames[i] : i \in world.actors},
         scenes |->
            IF world.SceneSelector = "None" THEN <<main>>
            ELSE IF world.SceneSelector = "StreamingLevels"
            THEN <<main>> \o [i \in 1..Len(world.SubLevels[MainMapName]) |->
                                 sub(world.SubLevels[MainMapName][i])]
            ELSE [i \in 1..Len(world.Library) |->
                     [name |-> world.Library[i],
                      parameters |-> inherited(world.Library[i])
                                        \o entries(world.Library[i])]]]

\* C24: the schema that was generated and handed to the save reads back as
\* the channel set, the scene order and the per-scene parameter entries, in
\* order, that it was generated from.
C24_SchemaRoundTrip ==
    editorCall.saved => Rebuilt(editorCall.schema) = Exposed(editorCall.world)

\* the parameter lists and the scene order alone do read back
C24_ScenesRoundTrip ==
    editorCall.saved =>
        Rebuilt(editorCall.schema).scenes = Exposed(editorCall.world).scenes

\* C25: a field created with n > 0 options has min 0, max n - 1 and step 1
\* whatever range was passed, and keeps the options in order; a field created
\* without options has the min, max and step that were passed.
C25_EnumeratedRangeCollapses ==
    editorCall.saved =>
        /\ Len(editorCall.fields) = Len(editorCall.calls)
        /\ \A i \in 1..Len(editorCall.calls) :
              LET a == editorCall.calls[i]
                  f == editorCall.fields[i]
              IN  IF Len(a.options) > 0
                  THEN /\ f.Min = 0
                       /\ f.Max = (Len(a.options) - 1) * 1000
                       /\ f.Step = 1000
                       /\ f.Options = a.options
                  ELSE /\ f.Min = a.min
                       /\ f.Max = a.max
                       /\ f.Step = a.step
                       /\ f.Options = <<>>

\* an enumeration of three labels passed the range 0..255 came out as 0..2,
\* next to a float that kept its step of 0.001
C25_Witness ==
    /\ editorCall.saved
    /\ Len(editorCall.calls) = 2
    /\ Len(editorCall.calls[1].options) = 3
    /\ editorCall.calls[1].max = 255000
    /\ editorCall.fields[1].Max = 2000
    /\ editorCall.calls[2].options = <<>>
    /\ editorCall.fields[2].Step = 1
    /\ editorCall.fields[2].Min = -1000

-----------------------------------------------------------------------------
(* Claims about the save of a generated schema *)

\* C26 as stated: once the router has accepted the schema the local
\* ScopedSchema is empty, and nothing the router was handed is ever freed by
\* the local side.
C26_SaveConsumesSchema ==
    /\ (schemaCall.op = "rs_saveSchema" /\ schemaCall.accepted)
           => objSchema[schemaCall.obj] = EmptySchema
    /\ \A p \in handed : freeCount[p] = 0

\* C26 as amended: the save lends the schema. The call, accepted or not,
\* leaves the local ScopedSchema and the heap as they were, and the release
\* at scope exit frees every allocation the router was shown exactly once.
C26_SaveLendsSchema ==
    /\ [][schemaCall'.op = "rs_saveSchema"
            => /\ objSchema' = objSchema
               /\ objState' = objState
               /\ freeCount' = freeCount
               /\ mem' = mem]_vars
    /\ [](\A p \in handed :
            /\ freeCount[p] <= 1
            /\ objState[owner[p]] = "destroyed" => freeCount[p] = 1)

\* the local schema was populated, accepted by the router and destroyed, and
\* the destructor freed what the router had been shown
C26_Witness ==
    /\ handed # {}
    /\ schemaCall.op = "destroy"
    /\ objState[LocalSchema] = "destroyed"
    /\ {schemaCall.freed[k] : k \in 1..Len(schemaCall.freed)} = handed
    /\ \A p \in handed : freeCount[p] = 1

\* C27: a save the router rejects is logged as an error and not retried. A
\* frame calls the save at most once, and only when the metadata is dirty;
\* it leaves the metadata clean whatever the router answered; and only a
\* world save or a world deletion makes the metadata dirty again.
C27_RejectedSaveNotRetried ==
    /\ [][editorCall'.op = "OnBeginFrame"
            => /\ saveAttempts' <= saveAttempts + 1
               /\ ~DirtyAssetMetadata'
               /\ editorCall'.result = "rejected"
                     => editorCall'.log = "Failed to save schema"]_vars
    /\ [][saveAttempts' # saveAttempts
            => editorCall'.op = "OnBeginFrame" /\ DirtyAssetMetadata]_vars
    /\ [][(~DirtyAssetMetadata /\ DirtyAssetMetadata')
            => editorCall'.op \in {"OnPostSaveWorld", "OnAssetsDeleted"}]_vars

\* the router rejected the first save; the error is logged and the metadata
\* is clean
C27_Witness ==
    /\ editorCall.op = "OnBeginFrame"
    /\ editorCall.saved
    /\ editorCall.result = "rejected"
    /\ editorCall.log = "Failed to save schema"
    /\ saveAttempts = 1
    /\ ~DirtyAssetMetadata

-----------------------------------------------------------------------------
(* Further claims about the scene selector *)

\* C28: the check at the head of ApplyScene never fails: every binding that
\* is not marked loaded has a streaming level, and no ApplyScene call found
\* otherwise.
C28_UnloadedBindingHasLevel ==
    /\ \A i \in 1..Len(m_specs) :
          ~m_specs[i].loaded => m_specs[i].streamingLevel # NoLevel
    /\ ~sceneCall.checkFailed

\* ApplyScene ran its check on a binding that is not marked loaded, next to a
\* binding of a scene that matched no level
C28_Witness ==
    /\ sceneCall.op = "ApplyScene"
    /\ ~sceneCall.checkFailed
    /\ sceneCall.scene < Len(m_specs)
    /\ ~m_specs[sceneCall.scene + 1].loaded
    /\ m_specs[sceneCall.scene + 1].streamingLevel # NoLevel
    /\ \E i \in 1..Len(m_specs) :
          m_specs[i].streamingLevel = NoLevel /\ m_specs[i].loaded

\* C29: when OnLoadedSchema returns, a binding is marked loaded exactly when
\* its scene matched no level or the matching level was loaded during the
\* call; a flag set under an earlier schema does not survive.
C29_NoStaleLoadedFlag ==
    sceneCall.op = "OnLoadedSchema" =>
        \A i \in 1..Len(m_specs) :
            m_specs[i].loaded
                <=> (\/ m_specs[i].streamingLevel = NoLevel
                     \/ levelLoaded[m_specs[i].streamingLevel])

-----------------------------------------------------------------------------
(* Further claims about the frame stream *)

\* C30: SendFrame on a stream that was not set up successfully, one whose
\* handle is 0 or whose Setup failed to create the image and the fence,
\* hands no frame to the router and leaves the fence value as it was.
C30_NoSendWithoutSetup ==
    [][(/\ streamCall'.op = "SendFrame"
        /\ (m_handle = 0 \/ m_bufTexture = NoResource \/ m_fence = NoResource))
          => sent' = sent /\ m_fenceValue' = m_fenceValue]_vars

-----------------------------------------------------------------------------
(* Claims about the scenes of the generated schema *)

\* the parameters generated for the exposed properties of one level
LevelParameters(world, level) ==
    ConvertFields(GenerateParameters(LevelProperties(world, level)))

\* C31: in StreamingLevels mode the schema has one scene for the default map
\* and one per sub-level of the default map, in the order the sub-levels are
\* listed. Scene 0 has the default map's parameters only; scene k has the
\* default map's parameters followed by those of the k-th sub-level, and its
\* parameter count is the sum of the two.
C31_StreamingLevelsScenes ==
    (editorCall.saved /\ editorCall.world.SceneSelector = "StreamingLevels") =>
        LET world == editorCall.world
            scenes == editorCall.schema.scenes
            subLevels == world.SubLevels[MainMapName]
            shared == LevelParameters(world, MainMapName)
        IN  /\ Len(scenes) = 1 + Len(subLevels)
            /\ scenes[1].name = TCHAR_TO_UTF8(MainMapName)
            /\ scenes[1].parameters = shared
            /\ scenes[1].nParameters = Len(shared)
            /\ \A k \in 1..Len(subLevels) :
                  LET own == LevelParameters(world, subLevels[k])
                  IN  /\ scenes[k + 1].name = TCHAR_TO_UTF8(subLevels[k])
                      /\ scenes[k + 1].parameters = shared \o own
                      /\ scenes[k + 1].nParameters = Len(shared) + Len(own)

\* a default map with two exposed properties and the sub-levels Cave and
\* Forest, in that order, was generated as three scenes
C31_Witness ==
    /\ editorCall.saved
    /\ editorCall.world.SceneSelector = "StreamingLevels"
    /\ editorCall.world.SubLevels[MainMapName] = <<CaveName, SubLevelName>>
    /\ Len(editorCall.world.properties) = 2
    /\ Len(editorCall.schema.scenes) = 3
    /\ editorCall.schema.scenes[2].name = TCHAR_TO_UTF8(CaveName)
    /\ editorCall.schema.scenes[2].nParameters
          = editorCall.schema.scenes[1].nParameters + 1
    /\ editorCall.schema.scenes[1].nParameters >= 2

\* the positions in the library of the caches that list `level` as a sub-level
Listing(world, level) ==
    {j \in 1..Len(world.Library) :
        level \in Range(world.SubLevels[world.Library[j]])}

\* C32: in Maps mode there is one scene per cache, in library order. A level
\* that no cache lists as a sub-level has its own parameters only; a level
\* listed by one or more caches has the parameters of exactly one of them,
\* the one that comes last in library order, in front of its own.
C32_MapsLastParentWins ==
    (editorCall.saved /\ editorCall.world.SceneSelector = "Maps") =>
        LET world == editorCall.world
            scenes == editorCall.schema.scenes
        IN  /\ Len(scenes) = Len(world.Library)
            /\ \A i \in 1..Len(world.Library) :
                  LET level == world.Library[i]
                      own == LevelParameters(world, level)
                      listing == Listing(world, level)
                      last == CHOOSE j \in listing : \A k \in listing : k <= j
                  IN  /\ scenes[i].name = TCHAR_TO_UTF8(level)
                      /\ scenes[i].parameters =
                            IF listing = {} THEN own
                            ELSE LevelParameters(world, world.Library[last]) \o own
                      /\ scenes[i].nParameters = Len(scenes[i].parameters)

\* the default map, with two exposed properties, and the second map both list
\* Forest; the second map comes later in the library and its one parameter is
\* what Forest's scene starts with
C32_Witness ==
    /\ editorCall.saved
    /\ editorCall.world.SceneSelector = "Maps"
    /\ editorCall.world.Library = <<MainMapName, SubLevelName, CaveName>>
    /\ editorCall.world.SubLevels[MainMapName] = <<SubLevelName>>
    /\ editorCall.world.SubLevels[CaveName] = <<SubLevelName>>
    /\ Len(editorCall.world.properties) = 2
    /\ editorCall.schema.scenes[2].nParameters = 2
    /\ editorCall.schema.scenes[2].parameters[1]
          = editorCall.schema.scenes[3].parameters[1]
    /\ editorCall.schema.scenes[1].nParameters >= 2

-----------------------------------------------------------------------------
(* Claims about the frames of the editor module *)

\* C33 as stated: a frame regenerates the schema exactly when a successful
\* world save or a deletion of a world happened since the frame before; it
\* does so once however many there were, and the metadata is clean after it.
C33_RegenerationPerFrame ==
    [][editorCall'.op = "OnBeginFrame"
          => /\ editorCall'.saved <=> editorCall.since > 0
             /\ saveAttempts' <= saveAttempts + 1
             /\ ~DirtyAssetMetadata']_vars

\* C33 as amended: a frame calls GenerateAssetMetadata exactly when such an
\* event happened since the frame before, and calls it once; the call
\* generates and saves the schema when the RenderStream link is available and
\* generates nothing when it is not; either way the metadata is clean after
\* the frame.
C33_GenerateCalledPerFrame ==
    [][editorCall'.op = "OnBeginFrame"
          => /\ editorCall'.called <=> editorCall.since > 0
             /\ editorCall'.saved
                   <=> (/\ editorCall'.called
                        /\ editorCall'.log # "RenderStreamLink unavailable")
             /\ saveAttempts' = (IF editorCall'.saved THEN saveAttempts + 1
                                 ELSE saveAttempts)
             /\ ~DirtyAssetMetadata']_vars

\* two world saves were followed by one frame, which generated and saved the
\* schema once
C33_Witness ==
    /\ editorCall.op = "OnBeginFrame"
    /\ editorCall.handled = 2
    /\ editorCall.called
    /\ editorCall.saved
    /\ saveAttempts = 1
    /\ ~DirtyAssetMetadata

====
